---------------------------- MODULE Spec2Model ----------------------------
(***************************************************************************)
(* Model of the deterministic puzzle engine of contextual_word_puzzle:     *)
(* generate_spelling_bee_puzzle.py (dedup filter, affix test, candidate    *)
(* and center-letter search, puzzle assembly, main) and the start-game     *)
(* handler of server.py, over the subset query engine both import.         *)
(*                                                                         *)
(* The specifications share the module's variables:                        *)
(*   SpecDedup    - drop_superset_words applied to a drawn entry list,     *)
(*                  then applied again to its own output;                  *)
(*   SpecAffix    - is_simple_affix_variant applied to a drawn pair;       *)
(*   SpecSearch   - pick_candidate_and_center / evaluate_candidate over a  *)
(*                  drawn candidate pool, one loop step at a time;         *)
(*   SpecAssemble - generate_puzzle_json applied to a drawn search result; *)
(*   SpecMain     - main, from the parsed command line to the file;        *)
(*   SpecServer   - initialize_dictionary, then start_game requests;       *)
(*   SpecPrograms - either program, SpecMain or SpecServer.                *)
(* Words are TLA+ strings; a frequency (a float in the code) is a natural  *)
(* number of abstract units, only its order against the threshold matters. *)
(***************************************************************************)
EXTENDS Integers, Sequences, FiniteSets, TLC

VARIABLES
    pc,               \* position of the modelled run
    \* ---- drop_superset_words --------------------------------------------
    word_entries,     \* the caller's list, argument of drop_superset_words
    freq_threshold,   \* argument freq_threshold
    kept_entries,     \* local kept_entries after the walk
    dropped,          \* local dropped: <<entry, drop_reason, reason>> records
    filtered,         \* value returned by drop_superset_words(word_entries)
    refiltered,       \* value returned by drop_superset_words(filtered)
    \* ---- is_simple_affix_variant ----------------------------------------
    base,             \* argument base
    candidate,        \* argument candidate
    is_variant,       \* value returned by is_simple_affix_variant
    \* ---- pick_candidate_and_center / evaluate_candidate ------------------
    candidates,       \* argument candidates (the pool)
    min_words_required, \* argument min_words_required
    mask_index,       \* argument mask_index, opaque to the search
    remaining,        \* positions of candidates_copy not yet iterated
    current,          \* position of the candidate under evaluation, 0 if none
    unique_letters,   \* evaluate_candidate's local unique_letters
    seed,             \* evaluate_candidate's local seed
    centers_left,     \* elements of the shuffled centers not yet iterated
    trials,           \* centers queried so far in the current evaluation
    returns,          \* log of evaluate_candidate's returns
    result,           \* value returned by pick_candidate_and_center
    returned_at,      \* line of pick_candidate_and_center's return, 0 before it
    queries,          \* number of calls of all_words_for_seed so far
    steps,            \* number of steps the search has taken so far
    \* ---- main, generate_puzzle_json, the server ---------------------------
    engine_validates, \* whether the imported all_words_for_seed checks its seed
    dictionary,       \* the words load_words_from_json returned
    dict_data,        \* the definitions load_words_from_json returned
    word_frequency,   \* wordfreq's word_frequency(word, 'en'), per word
    args,             \* main's parsed command line
    puzzle_data,      \* value returned by generate_puzzle_json
    output_file,      \* what main wrote to the output file, None before
    request,          \* JSON body of the last /api/start-game request
    response,         \* the response start_game returned to it
    last_query,       \* arguments of a call of all_words_for_seed, None before
    \* ---- the tools around the engine, one call at a time -------------------
    call,             \* the function called and its arguments
    locals,           \* the local variables of the call
    returned          \* the value the call returned, None before

vars == <<pc, word_entries, freq_threshold, kept_entries, dropped, filtered,
          refiltered, base, candidate, is_variant, candidates,
          min_words_required, mask_index, remaining, current, unique_letters,
          seed, centers_left, trials, returns, result, returned_at, queries,
          steps, engine_validates, dictionary, dict_data, word_frequency, args,
          puzzle_data, output_file, request, response, last_query, call, locals,
          returned>>

searchVars == <<candidates, min_words_required, mask_index, remaining, current,
                unique_letters, seed, centers_left, trials, returns, result,
                returned_at, queries, steps>>

programVars == <<engine_validates, dictionary, dict_data, word_frequency, args,
                 puzzle_data, output_file, request, response, last_query>>

toolVars == <<call, locals, returned>>

dedupVars == <<word_entries, freq_threshold, kept_entries, dropped, filtered,
               refiltered>>
affixVars == <<base, candidate, is_variant>>

-----------------------------------------------------------------------------
(* Bounds *)

MaxEntries == 3      \* longest entry list handed to drop_superset_words
MaxFreq == 2         \* frequencies range over 0..MaxFreq, thresholds over 1..MaxFreq
MaxBaseLen == 2      \* longest stem drawn for is_simple_affix_variant
MaxCandidates == 2   \* longest candidate pool handed to pick_candidate_and_center
MaxMinWords == 2     \* min_words_required of the search alone ranges over 1..MaxMinWords
MaxMainMinWords == 4 \* --min-words of the program ranges over 1..MaxMainMinWords

-----------------------------------------------------------------------------
(* Python str primitives *)

\* Code-point order of the characters the model uses (' ' < '!' < '1' < 'A' < 'a').
CodePoints == " !1AEGINRSabceginrst"

UpperCase == "ABCDEFGHIJKLMNOPQRSTUVWXYZ"
LowerCase == "abcdefghijklmnopqrstuvwxyz"

CharAt(s, i) == SubSeq(s, i, i)

\* set(s): the characters of a string
LettersOf(s) == {CharAt(s, i) : i \in 1..Len(s)}

\* set(s): the elements of a list
Range(s) == {s[i] : i \in DOMAIN s}

\* the position of each character in CodePoints
OrdOf ==
    [c \in {CharAt(CodePoints, i) : i \in 1..Len(CodePoints)} |->
        CHOOSE i \in 1..Len(CodePoints) : CharAt(CodePoints, i) = c]

Ord(c) == OrdOf[c]

\* the lower-case letter of each upper-case letter
LowerOf ==
    [c \in {CharAt(UpperCase, i) : i \in 1..Len(UpperCase)} |->
        CharAt(LowerCase, CHOOSE i \in 1..Len(UpperCase) : CharAt(UpperCase, i) = c)]

\* str.lower() on one character
LowerChar(c) == IF c \in DOMAIN LowerOf THEN LowerOf[c] ELSE c

RECURSIVE Lower(_)
Lower(s) == IF s = "" THEN "" ELSE LowerChar(CharAt(s, 1)) \o Lower(SubSeq(s, 2, Len(s)))

\* a < b on str: lexicographic by code point, a proper prefix is smaller
RECURSIVE StrLess(_, _)
StrLess(a, b) ==
    IF b = "" THEN FALSE
    ELSE IF a = "" THEN TRUE
    ELSE IF CharAt(a, 1) # CharAt(b, 1) THEN Ord(CharAt(a, 1)) < Ord(CharAt(b, 1))
    ELSE StrLess(SubSeq(a, 2, Len(a)), SubSeq(b, 2, Len(b)))

\* s.startswith(p)
StartsWith(s, p) == Len(p) <= Len(s) /\ SubSeq(s, 1, Len(p)) = p

\* s.endswith(p)
EndsWith(s, p) == Len(p) <= Len(s) /\ SubSeq(s, Len(s) - Len(p) + 1, Len(s)) = p

\* k in w  (substring test)
IsSubstring(k, w) ==
    \/ k = ""
    \/ \E i \in 1..(Len(w) - Len(k) + 1) : SubSeq(w, i, i + Len(k) - 1) = k

-----------------------------------------------------------------------------
(* is_simple_affix_variant *)

simple_prefixes == <<"re">>
suffixes == <<"ing", "er", "ness", "s">>

\* mutant: the doubled-final-letter form is tried for every suffix
DoublingSuffix_AnySuffix(suffix) == TRUE

\* the doubled-final-letter form is tried only for these suffixes
DoublingSuffix(suffix) == suffix \in {"ing", "er"}

\* body of the suffix loop for one suffix, on the lower-cased arguments
SuffixMatches(b, c, suffix) ==
    /\ EndsWith(c, suffix)
    /\ LET stripped == SubSeq(c, 1, Len(c) - Len(suffix))
       IN \/ stripped = b
          \/ /\ DoublingSuffix(suffix)
             /\ Len(b) >= 1
             /\ stripped = b \o CharAt(b, Len(b))

is_simple_affix_variant(base_arg, candidate_arg) ==
    LET b == Lower(base_arg)
        c == Lower(candidate_arg)
    IN IF b = "" \/ c = "" THEN FALSE
       ELSE \/ \E i \in DOMAIN simple_prefixes :
                  /\ StartsWith(c, simple_prefixes[i])
                  /\ SubSeq(c, Len(simple_prefixes[i]) + 1, Len(c)) = b
            \/ \E i \in DOMAIN suffixes : SuffixMatches(b, c, suffixes[i])

-----------------------------------------------------------------------------
(* drop_superset_words *)

\* sort key (len(entry["word"]), entry["word"]): a sorts strictly before b
KeyLess(a, b) ==
    \/ Len(a.word) < Len(b.word)
    \/ Len(a.word) = Len(b.word) /\ StrLess(a.word, b.word)

\* stable insertion: e goes after every element whose key is <= its own
RECURSIVE InsertSorted(_, _)
InsertSorted(s, e) ==
    IF s = <<>> THEN <<e>>
    ELSE IF KeyLess(e, s[Len(s)]) THEN Append(InsertSorted(SubSeq(s, 1, Len(s) - 1), e), s[Len(s)])
    ELSE Append(s, e)

\* sorted(word_entries, key=...): Python's sort is stable
RECURSIVE SortedByLen(_)
SortedByLen(entries) ==
    IF entries = <<>> THEN <<>>
    ELSE InsertSorted(SortedByLen(SubSeq(entries, 1, Len(entries) - 1)), entries[Len(entries)])

\* mutant: the base need not be well-established
QualifyingBase_AnyFrequency(kept_entry, word, thr) ==
    /\ IsSubstring(kept_entry.word, word)
    /\ kept_entry.word # word

\* condition of the generator inside next(...)
QualifyingBase(kept_entry, word, thr) ==
    /\ IsSubstring(kept_entry.word, word)
    /\ kept_entry.word # word
    /\ kept_entry.frequency >= thr

\* next((k for k in kept_entries if ...), None): index of the first match, 0 for None
DropReason(kept, word, thr) ==
    LET hits == {i \in DOMAIN kept : QualifyingBase(kept[i], word, thr)}
    IN IF hits = {} THEN 0 ELSE CHOOSE i \in hits : \A j \in hits : i <= j

\* mutant: the search runs over every entry walked so far, most recent first
RECURSIVE Walk_NearestWalked(_, _, _, _, _)
Walk_NearestWalked(sorted_by_len, i, kept, drp, thr) ==
    IF i > Len(sorted_by_len) THEN [kept |-> kept, dropped |-> drp]
    ELSE LET entry == sorted_by_len[i]
             hits == {j \in 1..(i - 1) : QualifyingBase(sorted_by_len[j], entry.word, thr)}
             r == IF hits = {} THEN 0 ELSE CHOOSE j \in hits : \A k \in hits : k <= j
         IN IF r # 0 /\ is_simple_affix_variant(sorted_by_len[r].word, entry.word)
            THEN Walk_NearestWalked(sorted_by_len, i + 1, kept,
                      Append(drp, [entry |-> entry, drop_reason |-> sorted_by_len[r], reason |-> "affix"]), thr)
            ELSE IF r # 0 /\ entry.frequency <= thr
            THEN Walk_NearestWalked(sorted_by_len, i + 1, kept,
                      Append(drp, [entry |-> entry, drop_reason |-> sorted_by_len[r], reason |-> "frequency"]), thr)
            ELSE Walk_NearestWalked(sorted_by_len, i + 1, Append(kept, entry), drp, thr)

\* the for loop over sorted_by_len, from position i on
RECURSIVE Walk(_, _, _, _, _)
Walk(sorted_by_len, i, kept, drp, thr) ==
    IF i > Len(sorted_by_len) THEN [kept |-> kept, dropped |-> drp]
    ELSE LET entry == sorted_by_len[i]
             r == DropReason(kept, entry.word, thr)
         IN IF r # 0 /\ is_simple_affix_variant(kept[r].word, entry.word)
            THEN Walk(sorted_by_len, i + 1, kept,
                      Append(drp, [entry |-> entry, drop_reason |-> kept[r], reason |-> "affix"]), thr)
            ELSE IF r # 0 /\ entry.frequency <= thr
            THEN Walk(sorted_by_len, i + 1, kept,
                      Append(drp, [entry |-> entry, drop_reason |-> kept[r], reason |-> "frequency"]), thr)
            ELSE Walk(sorted_by_len, i + 1, Append(kept, entry), drp, thr)

\* [entry for entry in word_entries if entry["word"] in kept_set]
\* mutant: the entries walked and kept are returned as they are, in the
\* order of the walk
RestrictToKept_WalkOrder(entries, kept) == kept

\* mutant: for each entry kept, the caller's entries of that word
RestrictToKept_Join(entries, kept) ==
    LET Joined[n \in 0..Len(kept)] ==
            IF n = 0 THEN <<>>
            ELSE LET SameWord(e) == e.word = kept[n].word
                 IN Joined[n - 1] \o SelectSeq(entries, SameWord)
    IN Joined[Len(kept)]

RestrictToKept(entries, kept) ==
    LET kept_set == {kept[i].word : i \in DOMAIN kept}
        InKeptSet(e) == e.word \in kept_set
    IN SelectSeq(entries, InKeptSet)

\* the whole function: the locals after the walk and the returned list
drop_superset_words(entries, thr) ==
    IF entries = <<>>
    THEN [kept |-> <<>>, dropped |-> <<>>, out |-> entries]
    ELSE LET w == Walk(SortedByLen(entries), 1, <<>>, <<>>, thr)
         IN [kept |-> w.kept, dropped |-> w.dropped, out |-> RestrictToKept(entries, w.kept)]

-----------------------------------------------------------------------------
(* Inputs of SpecDedup *)

WordPool == {"act", "actin", "acting", "actins"}

Entries == [word : WordPool, frequency : 0..MaxFreq]

EntryLists == UNION {[1..n -> Entries] : n \in 0..MaxEntries}

IdleAffix == base = "" /\ candidate = "" /\ is_variant = FALSE

IdleDedup ==
    /\ word_entries = <<>>
    /\ freq_threshold = 0
    /\ kept_entries = <<>>
    /\ dropped = <<>>
    /\ filtered = <<>>
    /\ refiltered = <<>>

IdleSearch ==
    /\ candidates = <<>>
    /\ min_words_required = 0
    /\ mask_index = <<>>
    /\ remaining = {}
    /\ current = 0
    /\ unique_letters = <<>>
    /\ seed = ""
    /\ centers_left = {}
    /\ trials = {}
    /\ returns = {}
    /\ result = <<>>
    /\ returned_at = 0
    /\ queries = 0
    /\ steps = 0

IdleProgram ==
    /\ engine_validates = FALSE
    /\ dictionary = <<>>
    /\ dict_data = <<>>
    /\ word_frequency = <<>>
    /\ args = <<>>
    /\ puzzle_data = <<>>
    /\ output_file = <<>>
    /\ request = <<>>
    /\ response = <<>>
    /\ last_query = <<>>

IdleTools == call = <<>> /\ locals = <<>> /\ returned = <<>>

InitDedup ==
    /\ pc = "start"
    /\ IdleTools
    /\ word_entries \in EntryLists
    /\ freq_threshold \in 1..MaxFreq
    /\ kept_entries = <<>>
    /\ dropped = <<>>
    /\ filtered = <<>>
    /\ refiltered = <<>>
    /\ IdleAffix
    /\ IdleSearch
    /\ IdleProgram

\* drop_superset_words(word_entries, freq_threshold)
Filter ==
    /\ pc = "start"
    /\ LET r == drop_superset_words(word_entries, freq_threshold)
       IN /\ kept_entries' = r.kept
          /\ dropped' = r.dropped
          /\ filtered' = r.out
    /\ pc' = "filtered"
    /\ UNCHANGED <<word_entries, freq_threshold, refiltered, affixVars, searchVars, programVars, toolVars>>

\* drop_superset_words(filtered, freq_threshold): the filter applied to its own output
Refilter ==
    /\ pc = "filtered"
    /\ refiltered' = drop_superset_words(filtered, freq_threshold).out
    /\ pc' = "refiltered"
    /\ UNCHANGED <<word_entries, freq_threshold, kept_entries, dropped, filtered, affixVars, searchVars, programVars, toolVars>>

NextDedup == Filter \/ Refilter

SpecDedup == InitDedup /\ [][NextDedup]_vars

-----------------------------------------------------------------------------
(* Inputs of SpecAffix *)

AffixAlphabet == {"n", "N", "e", "s"}

RECURSIVE StringsUpTo(_)
StringsUpTo(n) ==
    IF n = 0 THEN {""}
    ELSE LET shorter == StringsUpTo(n - 1)
         IN shorter \cup {s \o c : s \in shorter, c \in AffixAlphabet}

Stems == StringsUpTo(MaxBaseLen)

Affixes == {"", "re", "RE", "ing", "er", "ness", "s"}

\* candidates: an optional prefix, a stem, an optional suffix
AffixCandidates == {p \o m \o s : p \in Affixes, m \in Stems, s \in Affixes}

InitAffix ==
    /\ pc = "start"
    /\ IdleTools
    /\ base \in Stems
    /\ candidate \in AffixCandidates
    /\ is_variant = FALSE
    /\ IdleDedup
    /\ IdleSearch
    /\ IdleProgram

\* is_simple_affix_variant(base, candidate)
TestAffix ==
    /\ pc = "start"
    /\ is_variant' = is_simple_affix_variant(base, candidate)
    /\ pc' = "tested"
    /\ UNCHANGED <<base, candidate, dedupVars, searchVars, programVars, toolVars>>

NextAffix == TestAffix

SpecAffix == InitAffix /\ [][NextAffix]_vars

-----------------------------------------------------------------------------
(* parse_distinct_letters *)

MIN_WORD_LENGTH == 4
RequiredLetters == 7

AsciiLetters == LettersOf(UpperCase) \cup LettersOf(LowerCase)

Whitespace == {" "}

\* str.strip()
RECURSIVE Strip(_)
Strip(s) ==
    IF s = "" THEN ""
    ELSE IF CharAt(s, 1) \in Whitespace THEN Strip(SubSeq(s, 2, Len(s)))
    ELSE IF CharAt(s, Len(s)) \in Whitespace THEN Strip(SubSeq(s, 1, Len(s) - 1))
    ELSE s

\* re.findall(r"[a-zA-Z]", text): the letters of text, in order, one per element
RECURSIVE FindAllLetters(_)
FindAllLetters(text) ==
    IF text = "" THEN <<>>
    ELSE LET rest == FindAllLetters(SubSeq(text, 2, Len(text)))
         IN IF CharAt(text, 1) \in AsciiLetters THEN <<CharAt(text, 1)>> \o rest ELSE rest

\* the list branch keeps each element whole: str(letter).lower().strip()
NormalizeListItem(item) == Strip(Lower(item))

\* mutant: the str branch takes every character of the string
parse_distinct_letters_EveryCharacter(distinct_letters) ==
    LET letters ==
            IF distinct_letters.kind = "list"
            THEN [i \in DOMAIN distinct_letters.items |-> NormalizeListItem(distinct_letters.items[i])]
            ELSE IF distinct_letters.kind = "str"
            THEN [i \in 1..Len(distinct_letters.text) |-> Lower(CharAt(distinct_letters.text, i))]
            ELSE <<>>
        NonEmpty(l) == l # ""
    IN SelectSeq(letters, NonEmpty)

\* distinct_letters is [kind |-> "list", items], [kind |-> "str", text] or
\* [kind |-> "other"]
parse_distinct_letters(distinct_letters) ==
    LET letters ==
            IF distinct_letters.kind = "list"
            THEN [i \in DOMAIN distinct_letters.items |-> NormalizeListItem(distinct_letters.items[i])]
            ELSE IF distinct_letters.kind = "str"
            THEN LET found == FindAllLetters(distinct_letters.text)
                 IN [i \in DOMAIN found |-> Lower(found[i])]
            ELSE <<>>
        NonEmpty(l) == l # ""
    IN SelectSeq(letters, NonEmpty)

\* sorted(S) for a set of str
RECURSIVE SortedSet(_)
SortedSet(S) ==
    IF S = {} THEN <<>>
    ELSE LET least == CHOOSE x \in S : \A y \in S : y = x \/ StrLess(x, y)
         IN <<least>> \o SortedSet(S \ {least})

\* ''.join(parts)
RECURSIVE Join(_)
Join(parts) == IF parts = <<>> THEN "" ELSE Head(parts) \o Join(Tail(parts))

\* unique_letters = sorted(set(parse_distinct_letters(...)))
UniqueLetters(cand) ==
    LET parsed == parse_distinct_letters(cand.distinct_letters)
    IN SortedSet({parsed[i] : i \in DOMAIN parsed})

-----------------------------------------------------------------------------
(* The candidates, dictionaries and requests the model draws its inputs from *)

ListForm(items) == [kind |-> "list", items |-> items]
StrForm(text) == [kind |-> "str", text |-> text]

CandidatePool ==
    { \* seven letters, list form with a capital and padding
      [word |-> "searing", distinct_letters |-> ListForm(<<"s", "e", "a", " R", "i", "N", "g">>)],
      \* seven letters, string form with punctuation, a capital and a repeat
      [word |-> "bearing", distinct_letters |-> StrForm("bea!riNgn")],
      \* five letters
      [word |-> "rings", distinct_letters |-> StrForm("rings")],
      \* list form with a non-alphabetic element
      [word |-> "sear1n", distinct_letters |-> ListForm(<<"s", "e", "a", "r", "1", "n", "g">>)],
      \* list form with an element longer than one character
      [word |-> "bearings", distinct_letters |-> ListForm(<<"b", "e", "a", "r", "i", "n", "gs">>)],
      \* distinct_letters neither a list nor a str
      [word |-> "none", distinct_letters |-> [kind |-> "other"]] }

\* two dictionaries, as the word lists load_words_from_json returns
DictionaryPool ==
    { <<"ring", "grin", "rings", "sing", "rain", "searing", "ear", "bearing",
        "brain", "tact">>,
      <<"rain", "gain", "sage", "bear", "acting">> }

\* a dictionary with more than thirty words over the letters of "searing",
\* each with an "a": sixteen of four letters, nine of five, seven longer
\* ones of which three use all seven letters
LargeDictionary ==
    <<"rain", "gain", "sage", "sang", "rang", "earn", "near", "gear", "rage", "sear",
      "ears", "area", "saga", "snag", "rags", "aria",
      "anger", "range", "grain", "snare", "gains", "rains", "arise", "raise", "again",
      "searing", "erasing", "regains", "easing", "grains", "ranges", "angers">>

\* the dictionaries the server is started on
ServerDictionaries == DictionaryPool \cup {LargeDictionary}

DictionaryWords == UNION {{d[i] : i \in DOMAIN d} : d \in ServerDictionaries}

\* two behaviours of wordfreq: frequencies falling with the length of the
\* word, and one frequency for every word but one on which wordfreq raises
FrequencyPool ==
    { [w \in DictionaryWords |-> IF Len(w) <= 4 THEN 2 ELSE IF Len(w) = 5 THEN 1 ELSE 0],
      [w \in DictionaryWords |-> IF w = "sing" THEN -1 ELSE 1] }

\* the definitions loaded with a dictionary: one item per word, keyed by
\* the word
DefinitionsOf(words) ==
    [i \in DOMAIN words |-> [key |-> words[i], value |-> "definition of " \o words[i]]]

\* definition files whose keys are not all lower-case: a key in capitals
\* before the exact key, two keys that differ in case only, no key
DictDataPool ==
    { <<[key |-> "Ring", value |-> "d1"], [key |-> "ring", value |-> "d2"],
        [key |-> "RAIN", value |-> "d3"], [key |-> "Rain", value |-> "d4"]>>,
      <<[key |-> "searing", value |-> ""], [key |-> "RINGS", value |-> "d5"]>>,
      <<>> }

\* bodies of POST /api/start-game
SeedInputs == {"", "searing", " seaRiNg", "bearings", "cat"}
CenterInputs == {"", "a", " N", "gs", "1", "s", "t"}

\* every seed with every center and no day, and the seed "searing" with two
\* centers on day 2
Requests ==
    [seed : SeedInputs, center : CenterInputs, day : {""}]
    \cup [seed : {"searing"}, center : {"a", "s"}, day : {"2"}]

\* what select_contextual_words can answer: the positions, in the sorted
\* word data, of the words it names, in the order it names them.  No word;
\* a word named twice; the thirteen most frequent words; twenty-two words
\* from the fifth on; the three least frequent of thirty-two.
Selections ==
    { <<>>,
      <<1, 1>>,
      [i \in 1..13 |-> i],
      [i \in 1..22 |-> i + 4],
      <<32, 30, 31>> }

-----------------------------------------------------------------------------
(* The subset query engine: build_mask_index, word_to_mask, mask_to_letters *)
(* and the query behind all_words_for_seed.  Both programs import them     *)
(* from index_mask_dictionary; they are modelled from the engine's         *)
(* description: a word's mask has bit i set iff letter i of the alphabet   *)
(* occurs in it, the index maps a mask to the words having it, the query   *)
(* walks the submasks of the puzzle mask with sub = (sub - 1) & mask.      *)

Alphabet26 == "abcdefghijklmnopqrstuvwxyz"

Letters26 == {CharAt(Alphabet26, i) : i \in 1..Len(Alphabet26)}

RECURSIVE Pow2(_)
Pow2(n) == IF n = 0 THEN 1 ELSE 2 * Pow2(n - 1)

\* 1 << (ord(ch) - ord('a'))
LetterBit ==
    [ch \in Letters26 |->
        Pow2((CHOOSE i \in 1..Len(Alphabet26) : CharAt(Alphabet26, i) = ch) - 1)]

\* a & b on non-negative integers
RECURSIVE BitAnd(_, _)
BitAnd(a, b) ==
    IF a = 0 \/ b = 0 THEN 0
    ELSE 2 * BitAnd(a \div 2, b \div 2) + (a % 2) * (b % 2)

\* number of set bits, int.bit_count()
RECURSIVE bit_count(_)
bit_count(mask) == IF mask = 0 THEN 0 ELSE (mask % 2) + bit_count(mask \div 2)

\* str.isalpha() on the characters of the model
isalpha(s) == s # "" /\ \A i \in 1..Len(s) : CharAt(s, i) \in AsciiLetters

\* a | b on non-negative integers
RECURSIVE BitOr(_, _)
BitOr(a, b) ==
    IF a = 0 THEN b
    ELSE IF b = 0 THEN a
    ELSE 2 * BitOr(a \div 2, b \div 2) + (IF a % 2 = 1 \/ b % 2 = 1 THEN 1 ELSE 0)

\* the bit of a character, none for a character that is not a letter
BitOf(ch) == IF ch \in Letters26 THEN LetterBit[ch] ELSE 0

\* word_to_mask(word): the OR of the bits of the word's letters; a character
\* that is not a letter has no bit
RECURSIVE word_to_mask(_)
word_to_mask(word) ==
    IF word = "" THEN 0
    ELSE BitOr(BitOf(CharAt(word, 1)), word_to_mask(SubSeq(word, 2, Len(word))))

\* mask_to_letters(mask): the letters of the set bits, in alphabetical order
RECURSIVE LettersFromBit(_, _)
LettersFromBit(mask, i) ==
    IF mask = 0 THEN ""
    ELSE (IF mask % 2 = 1 THEN CharAt(Alphabet26, i) ELSE "")
         \o LettersFromBit(mask \div 2, i + 1)

mask_to_letters(mask) == LettersFromBit(mask, 1)

\* build_mask_index(words, min_len): every word of at least min_len letters
\* is appended to the bucket of its mask
build_mask_index(words, min_len) ==
    LET LongEnough(w) == Len(w) >= min_len
        indexed == SelectSeq(words, LongEnough)
        masks == {word_to_mask(indexed[i]) : i \in DOMAIN indexed}
    IN [m \in masks |->
            LET HasMask(w) == word_to_mask(w) = m
            IN SelectSeq(indexed, HasMask)]

\* mutant: a submask is kept when it shares any letter with the puzzle mask
HasCenter_Always(sub, centerBit) == sub # 0

\* `if sub & center_bit`
HasCenter(sub, centerBit) == BitAnd(sub, centerBit) # 0

\* one turn of the walk's loop: the words of sub's bucket when sub holds the
\* center bit
BucketWords(sub, centerBit, buckets) ==
    IF HasCenter(sub, centerBit) /\ sub \in DOMAIN buckets THEN buckets[sub] ELSE <<>>

\* the next n turns of the loop from sub, found holding the words found so
\* far: the words after them, and the submask the loop has reached
RECURSIVE WalkTurns(_, _, _, _, _, _)
WalkTurns(sub, n, puzzleMask, centerBit, buckets, found) ==
    IF sub = 0 \/ n = 0 THEN [words |-> found, sub |-> sub]
    ELSE WalkTurns(BitAnd(sub - 1, puzzleMask), n - 1, puzzleMask, centerBit,
                   buckets, found \o BucketWords(sub, centerBit, buckets))

\* the walk over the non-empty submasks of puzzleMask, from puzzleMask down:
\* sub = (sub - 1) & puzzleMask until sub is 0, taken sixteen turns at a time
RECURSIVE SubmaskWalk(_, _, _, _)
SubmaskWalk(sub, puzzleMask, centerBit, buckets) ==
    IF sub = 0 THEN <<>>
    ELSE LET turns == WalkTurns(sub, 16, puzzleMask, centerBit, buckets, <<>>)
         IN turns.words \o SubmaskWalk(turns.sub, puzzleMask, centerBit, buckets)

\* query(puzzleMask, centerBit): the words of every bucket whose mask is a
\* submask of puzzleMask holding centerBit
query(puzzleMask, centerBit, buckets) ==
    SubmaskWalk(puzzleMask, puzzleMask, centerBit, buckets)

\* all_words_for_seed on a built index: the masks of seed and center letter,
\* the query, the words of at least min_len letters.  A center that is not
\* one letter has no bit and the call raises.  Whether the call checks that
\* the seed is seven letters holding the center is not fixed by the engine's
\* description: index.validates selects the build, and the build that does
\* not check takes the letters of the seed as they are.
EngineOutcome(seed_arg, center_letter, index, min_len) ==
    LET Raise == [raised |-> TRUE, words |-> <<>>]
        puzzleMask == word_to_mask(seed_arg)
        LongEnough(w) == Len(w) >= min_len
    IN IF center_letter \notin Letters26 THEN Raise
       ELSE IF /\ index.validates
               /\ ~ /\ \A i \in 1..Len(seed_arg) : CharAt(seed_arg, i) \in Letters26
                    /\ bit_count(puzzleMask) = RequiredLetters
                    /\ BitAnd(puzzleMask, LetterBit[center_letter]) # 0
            THEN Raise
       ELSE [raised |-> FALSE,
             words |-> SelectSeq(query(puzzleMask, LetterBit[center_letter],
                                       index.buckets), LongEnough)]

-----------------------------------------------------------------------------
(* evaluate_candidate and pick_candidate_and_center *)

None == [kind |-> "None"]

\* the tuple (candidate, center_letter, valid_words)
ResultTuple(cand, center_letter, valid_words) ==
    [kind |-> "tuple", candidate |-> cand, center_letter |-> center_letter,
     valid_words |-> valid_words]

\* mutant: the first evaluated candidate's result is returned whatever it is
Truthy_Always(value) == TRUE

\* `if result:` in pick_candidate_and_center
Truthy(value) == value # None

\* mutant: the threshold must be exceeded
MeetsThreshold_Strict(valid_words, min_words) == Len(valid_words) > min_words

\* mutant: one word fewer than required is enough
MeetsThreshold_OneShort(valid_words, min_words) == Len(valid_words) + 1 >= min_words

\* `len(valid_words) >= min_words_required`
MeetsThreshold(valid_words, min_words) == Len(valid_words) >= min_words

\* mutant: the buckets are read with a lookup that creates the bucket it
\* does not find, as a defaultdict does
IndexAfterQuery_DefaultDict(index, seed_arg, center_letter) ==
    IF index.kind # "index" THEN index
    ELSE [index EXCEPT !.buckets =
            [m \in DOMAIN index.buckets \cup {word_to_mask(seed_arg)} |->
                IF m \in DOMAIN index.buckets THEN index.buckets[m] ELSE <<>>]]

\* the index after a call of all_words_for_seed: the query only reads it
IndexAfterQuery(index, seed_arg, center_letter) == index

\* the arguments of a call of all_words_for_seed
QueryArgs(seed_arg, center_letter) == [seed |-> seed_arg, center_letter |-> center_letter]

\* the indexes build_mask_index builds from the model's dictionaries
BuiltIndexes ==
    {[kind |-> "index", buckets |-> build_mask_index(d, MIN_WORD_LENGTH), validates |-> v] :
        d \in ServerDictionaries, v \in BOOLEAN}

\* the seeds and center letters of the model's queries
QuerySeeds ==
    {Join(UniqueLetters(c)) : c \in CandidatePool}
    \cup {mask_to_letters(word_to_mask(Lower(Strip(s)))) : s \in SeedInputs}
    \cup {SubSeq(mask_to_letters(word_to_mask(Lower(Strip(s)))), 1, 7) :
            s \in {t \in SeedInputs : bit_count(word_to_mask(Lower(Strip(t)))) > 7}}

QueryCenters ==
    UNION {{UniqueLetters(c)[k] : k \in DOMAIN UniqueLetters(c)} : c \in CandidatePool}
    \cup {Lower(Strip(c)) : c \in CenterInputs}

\* EngineOutcome for each of them, evaluated once
QueryOutcomes ==
    [index \in BuiltIndexes |->
        [s \in QuerySeeds |->
            [c \in QueryCenters |-> EngineOutcome(s, c, index, MIN_WORD_LENGTH)]]]

\* all_words_for_seed(seed, center_letter, mask_index, min_len): imported.
\* To the search it is a black box: it returns a word list or raises, and
\* the same arguments give the same outcome.  An index of kind "outcomes" is
\* the table of those outcomes, a count of words or -1 for an exception; an
\* index of kind "index" is one that build_mask_index built.
all_words_for_seed(seed_arg, center_letter, index, min_len) ==
    IF index.kind = "outcomes"
    THEN LET n == index.table[seed_arg][center_letter]
         IN IF n < 0 THEN [raised |-> TRUE, words |-> <<>>]
            ELSE [raised |-> FALSE, words |-> [k \in 1..n |-> <<seed_arg, center_letter, k>>]]
    ELSE IF /\ index \in DOMAIN QueryOutcomes
            /\ seed_arg \in DOMAIN QueryOutcomes[index]
            /\ center_letter \in DOMAIN QueryOutcomes[index][seed_arg]
            /\ min_len = MIN_WORD_LENGTH
         THEN QueryOutcomes[index][seed_arg][center_letter]
    ELSE EngineOutcome(seed_arg, center_letter, index, min_len)

\* mutant: a center whose query raised stays in the list and is tried again
AfterTrial_RetryOnRaise(centers, center_letter, raised) ==
    IF raised THEN centers ELSE centers \ {center_letter}

\* `for center_letter in centers`: the loop passes each element once, whether
\* its query raised or not; the centers still to come after this one
AfterTrial(centers, center_letter, raised) == centers \ {center_letter}

\* position after evaluate_candidate returned value to the loop of
\* pick_candidate_and_center (lines 143-145)
AfterEvaluate(i, letters, seed_arg, value, line, tried) ==
    /\ returns' = returns \cup {[candidate |-> i, line |-> line, value |-> value,
                                  unique_letters |-> letters,
                                  seed |-> seed_arg, tried |-> tried,
                                  min_words |-> min_words_required]}
    /\ IF Truthy(value)
       THEN /\ result' = value
            /\ returned_at' = 145
            /\ pc' = "done"
       ELSE /\ UNCHANGED <<result, returned_at>>
            /\ pc' = "loop"

\* lines 139-140: candidates_copy = candidates.copy(); random.shuffle(...)
\* The permutation is drawn one position at a time by NextCandidate.
ShuffleCandidates ==
    /\ pc = "pick"
    /\ steps' = steps + 1
    /\ remaining' = DOMAIN candidates
    /\ pc' = "loop"
    /\ UNCHANGED <<candidates, min_words_required, mask_index, current,
                   unique_letters, seed, centers_left, trials, returns, result,
                   returned_at, queries, dedupVars, affixVars, programVars, toolVars>>

\* next candidate of the loop, evaluate_candidate lines 90-97: wrong count
EvaluateWrongCount ==
    /\ pc = "loop"
    /\ steps' = steps + 1
    /\ \E i \in remaining :
          /\ Len(UniqueLetters(candidates[i])) # RequiredLetters
          /\ current' = i
          /\ remaining' = remaining \ {i}
          /\ unique_letters' = UniqueLetters(candidates[i])
          /\ seed' = ""
          /\ AfterEvaluate(i, UniqueLetters(candidates[i]), "", None, 97, {})
    /\ trials' = {}
    /\ centers_left' = {}
    /\ UNCHANGED <<candidates, min_words_required, mask_index, queries,
                   dedupVars, affixVars, programVars, toolVars>>

\* next candidate of the loop, evaluate_candidate lines 90-102: the count is
\* 7, centers is a shuffled copy whose order TryCenter draws
EvaluateStart ==
    /\ pc = "loop"
    /\ steps' = steps + 1
    /\ \E i \in remaining :
          /\ Len(UniqueLetters(candidates[i])) = RequiredLetters
          /\ current' = i
          /\ remaining' = remaining \ {i}
          /\ unique_letters' = UniqueLetters(candidates[i])
          /\ seed' = Join(UniqueLetters(candidates[i]))
          /\ centers_left' = {UniqueLetters(candidates[i])[k] : k \in 1..RequiredLetters}
    /\ trials' = {}
    /\ pc' = "centers"
    /\ UNCHANGED <<candidates, min_words_required, mask_index, returns, result,
                   returned_at, queries, dedupVars, affixVars, programVars, toolVars>>

Seed(cand) == Join(UniqueLetters(cand))

\* lines 104-115: the query raises, the loop continues
CenterRaises ==
    /\ pc = "centers"
    /\ \E center_letter \in centers_left :
          /\ all_words_for_seed(seed, center_letter,
                                mask_index, MIN_WORD_LENGTH).raised
          /\ centers_left' = AfterTrial(centers_left, center_letter, TRUE)
          /\ trials' = trials \cup {center_letter}
    /\ queries' = queries + 1
    /\ steps' = steps + 1
    /\ UNCHANGED <<pc, candidates, min_words_required, mask_index, remaining,
                   current, unique_letters, seed, returns, result, returned_at,
                   dedupVars, affixVars, programVars, toolVars>>

\* lines 104-123: too few words, the loop continues
CenterTooFew ==
    /\ pc = "centers"
    /\ \E center_letter \in centers_left :
          LET q == all_words_for_seed(seed, center_letter,
                                      mask_index, MIN_WORD_LENGTH)
          IN /\ ~q.raised
             /\ ~MeetsThreshold(q.words, min_words_required)
             /\ centers_left' = AfterTrial(centers_left, center_letter, FALSE)
             /\ trials' = trials \cup {center_letter}
    /\ queries' = queries + 1
    /\ steps' = steps + 1
    /\ UNCHANGED <<pc, candidates, min_words_required, mask_index, remaining,
                   current, unique_letters, seed, returns, result, returned_at,
                   dedupVars, affixVars, programVars, toolVars>>

\* lines 104-120: the threshold is met, evaluate_candidate returns the tuple
CenterAccepted ==
    /\ pc = "centers"
    /\ \E center_letter \in centers_left :
          LET q == all_words_for_seed(seed, center_letter,
                                      mask_index, MIN_WORD_LENGTH)
          IN /\ ~q.raised
             /\ MeetsThreshold(q.words, min_words_required)
             /\ centers_left' = AfterTrial(centers_left, center_letter, FALSE)
             /\ trials' = trials \cup {center_letter}
             /\ AfterEvaluate(current, unique_letters, seed,
                              ResultTuple(candidates[current], center_letter, q.words),
                              120, trials \cup {center_letter})
    /\ queries' = queries + 1
    /\ steps' = steps + 1
    /\ UNCHANGED <<candidates, min_words_required, mask_index, remaining,
                   current, unique_letters, seed, dedupVars, affixVars, programVars, toolVars>>

\* line 125: the loop over centers ended without a return
CentersExhausted ==
    /\ pc = "centers"
    /\ steps' = steps + 1
    /\ centers_left = {}
    /\ AfterEvaluate(current, unique_letters, seed, None, 125, trials)
    /\ UNCHANGED <<candidates, min_words_required, mask_index, remaining,
                   current, unique_letters, seed, centers_left, trials, queries,
                   dedupVars, affixVars, programVars, toolVars>>

\* line 147: the loop over candidates ended without a return
PoolExhausted ==
    /\ pc = "loop"
    /\ steps' = steps + 1
    /\ remaining = {}
    /\ result' = None
    /\ returned_at' = 147
    /\ pc' = "done"
    /\ UNCHANGED <<candidates, min_words_required, mask_index, remaining,
                   current, unique_letters, seed, centers_left, trials, returns,
                   queries, dedupVars, affixVars, programVars, toolVars>>

-----------------------------------------------------------------------------
(* Inputs of SpecSearch *)

CandidateLists == UNION {[1..n -> CandidatePool] : n \in 1..MaxCandidates}

\* the seeds the pool leads to, with the elements each is joined from
SeedLetters ==
    [s \in {Seed(c) : c \in {d \in CandidatePool : Len(UniqueLetters(d)) = RequiredLetters}} |->
        LET c == CHOOSE d \in CandidatePool : Len(UniqueLetters(d)) = RequiredLetters /\ Seed(d) = s
        IN UniqueLetters(c)]

\* an index giving, per seed, the outcome for the k-th element as center
IndexFrom(tables) ==
    [kind |-> "outcomes",
     table |->
        [s \in DOMAIN SeedLetters |->
            [c \in {SeedLetters[s][k] : k \in 1..RequiredLetters} |->
                LET k == CHOOSE k \in 1..RequiredLetters : SeedLetters[s][k] = c
                IN tables[s][k]]]]

\* two dictionaries: in the first the queries on malformed seeds raise, in
\* the second they return words
IndexPool ==
    { IndexFrom([s \in DOMAIN SeedLetters |->
          CASE s = "aeginrs" -> <<2, 0, 1, -1, 1, 0, 3>>
            [] s = "abeginr" -> <<0, 1, 0, 0, -1, 1, 0>>
            [] OTHER -> <<-1, -1, -1, -1, -1, -1, -1>>]),
      IndexFrom([s \in DOMAIN SeedLetters |->
          CASE s = "aeginrs" -> <<1, 0, 1, 0, 1, -1, 0>>
            [] s = "abeginr" -> <<0, 2, 0, 4, 0, 0, -1>>
            [] OTHER -> <<0, 0, 3, 0, -1, 0, 0>>]) }

InitSearch ==
    /\ pc = "pick"
    /\ IdleTools
    /\ candidates \in CandidateLists
    /\ min_words_required \in 1..MaxMinWords
    /\ mask_index \in IndexPool
    /\ remaining = {}
    /\ current = 0
    /\ unique_letters = <<>>
    /\ seed = ""
    /\ centers_left = {}
    /\ trials = {}
    /\ returns = {}
    /\ result = <<>>
    /\ returned_at = 0
    /\ queries = 0
    /\ steps = 0
    /\ IdleDedup
    /\ IdleAffix
    /\ IdleProgram

NextSearch ==
    \/ ShuffleCandidates
    \/ EvaluateWrongCount
    \/ EvaluateStart
    \/ CenterRaises
    \/ CenterTooFew
    \/ CenterAccepted
    \/ CentersExhausted
    \/ PoolExhausted

SpecSearch == InitSearch /\ [][NextSearch]_vars

-----------------------------------------------------------------------------
(* generate_puzzle_json *)

\* SUBSET_FREQ_THRESHOLD = 7e-6, in the model's unit of frequency
SUBSET_FREQ_THRESHOLD == 1

\* word_frequency(word, 'en') inside try/except: 0.0 when it raises.  The
\* table holds the frequency of each word, or -1 where wordfreq raises.
FrequencyOrZero(word, table) == IF table[word] < 0 THEN 0 ELSE table[word]

\* key=lambda x: (-x[1], x[0])
FreqKeyLess(a, b) ==
    \/ a.frequency > b.frequency
    \/ a.frequency = b.frequency /\ StrLess(a.word, b.word)

\* stable insertion: e goes after every element whose key is <= its own
RECURSIVE InsertByFreq(_, _)
InsertByFreq(s, e) ==
    IF s = <<>> THEN <<e>>
    ELSE IF FreqKeyLess(e, s[Len(s)])
         THEN Append(InsertByFreq(SubSeq(s, 1, Len(s) - 1), e), s[Len(s)])
    ELSE Append(s, e)

\* list.sort(key=lambda x: (-x[1], x[0]))
RECURSIVE SortedByFreq(_)
SortedByFreq(entries) ==
    IF entries = <<>> THEN <<>>
    ELSE InsertByFreq(SortedByFreq(SubSeq(entries, 1, Len(entries) - 1)),
                      entries[Len(entries)])

\* a dict of definitions is the list of its items, in the order of the
\* file: the positions whose key is k, and those whose key lower-cased is k
KeyPositions(dict, k) == {i \in DOMAIN dict : dict[i].key = k}

FoldedPositions(dict, k) == {i \in DOMAIN dict : Lower(dict[i].key) = k}

First(S) == CHOOSE i \in S : \A j \in S : i <= j

NoDefinition == "No definition available"

\* mutant: the first key equal to the word when lower-cased, exact or not
get_word_definition_FirstFolded(word, dict) ==
    IF FoldedPositions(dict, Lower(word)) # {}
    THEN dict[First(FoldedPositions(dict, Lower(word)))].value
    ELSE NoDefinition

\* get_word_definition(word, dict_data), lines 150-162
get_word_definition(word, dict) ==
    IF KeyPositions(dict, Lower(word)) # {}
    THEN dict[First(KeyPositions(dict, Lower(word)))].value
    ELSE IF FoldedPositions(dict, Lower(word)) # {}
    THEN dict[First(FoldedPositions(dict, Lower(word)))].value
    ELSE NoDefinition

\* lines 196-204: the entry of each sorted word, with its definition
WithDefinitions(words_with_freq, dict) ==
    [i \in DOMAIN words_with_freq |->
        [word |-> words_with_freq[i].word,
         frequency |-> words_with_freq[i].frequency,
         definition |-> get_word_definition(words_with_freq[i].word, dict)]]

\* generate_puzzle_json(candidate, center_letter, valid_words, dict_data)
generate_puzzle_json(cand, center_letter, valid_words, table, dict) ==
    LET words_with_freq ==
            [i \in DOMAIN valid_words |->
                [word |-> valid_words[i],
                 frequency |-> FrequencyOrZero(valid_words[i], table)]]
        entries == drop_superset_words(WithDefinitions(SortedByFreq(words_with_freq), dict),
                                       SUBSET_FREQ_THRESHOLD).out
    IN [seed_word |-> cand.word,
        distinct_letters |-> parse_distinct_letters(cand.distinct_letters),
        center_letter |-> center_letter,
        total_words |-> Len(entries),
        words |-> entries]

-----------------------------------------------------------------------------
(* main of generate_spelling_bee_puzzle.py *)

\* evaluate_candidate(candidate, mask_index, min_words_required) as a whole:
\* the values it can return.  centers is shuffled, so each center whose query
\* returns enough words can be the first such center of the loop.
evaluate_candidate(cand, index, min_words) ==
    LET letters == UniqueLetters(cand)
        Outcome(center_letter) ==
            all_words_for_seed(Join(letters), center_letter, index, MIN_WORD_LENGTH)
        enough == {center_letter \in {letters[k] : k \in DOMAIN letters} :
                      /\ ~Outcome(center_letter).raised
                      /\ MeetsThreshold(Outcome(center_letter).words, min_words)}
    IN IF Len(letters) # RequiredLetters \/ enough = {} THEN {None}
       ELSE {ResultTuple(cand, center_letter, Outcome(center_letter).words) :
                center_letter \in enough}

\* pick_candidate_and_center(candidates, mask_index, min_words_required) as a
\* whole: the values it can return.  candidates_copy is shuffled, so each
\* candidate with a truthy result can be the first one of the loop.
pick_candidate_and_center(cands, index, min_words) ==
    LET found == {r \in UNION {evaluate_candidate(cands[i], index, min_words) :
                                  i \in DOMAIN cands} : Truthy(r)}
    IN IF found = {} THEN {None} ELSE found

\* mutant: main goes on whatever the search returned
IsNone_Never(value) == FALSE

\* `if result is None`
IsNone(value) == value = None

\* str.upper() on one character
UpperChar(c) ==
    IF \E i \in 1..Len(LowerCase) : CharAt(LowerCase, i) = c
    THEN CharAt(UpperCase, CHOOSE i \in 1..Len(LowerCase) : CharAt(LowerCase, i) = c)
    ELSE c

RECURSIVE Upper(_)
Upper(s) == IF s = "" THEN "" ELSE UpperChar(CharAt(s, 1)) \o Upper(SubSeq(s, 2, Len(s)))

\* lines 409-416: next((cand for cand in candidates if ... == desired_word), None)
FindCandidate(cands, desired_word) ==
    LET Matches(i) == Strip(Lower(cands[i].word)) = desired_word
    IN IF \E i \in DOMAIN cands : Matches(i)
       THEN cands[CHOOSE i \in DOMAIN cands :
                     Matches(i) /\ \A j \in DOMAIN cands : Matches(j) => i <= j]
       ELSE None

\* lines 420-422: the sorted distinct alphabetic characters of seed_word, or
\* all its distinct characters when none is alphabetic
DirectLetters(seed_word) ==
    LET chars == {CharAt(seed_word, i) : i \in 1..Len(seed_word)}
        alpha == {ch \in chars : ch \in AsciiLetters}
    IN SortedSet(IF alpha # {} THEN alpha ELSE chars)

\* lines 407-430: the candidate of the seed-word mode, None when the assert
\* on the number of distinct letters fails
SeedWordCandidate(cands, seed_word) ==
    LET listed == FindCandidate(cands, Strip(Lower(seed_word)))
    IN IF listed # None THEN listed
       ELSE IF Len(DirectLetters(seed_word)) # RequiredLetters THEN None
       ELSE [word |-> Upper(seed_word),
             distinct_letters |-> [kind |-> "list", items |-> DirectLetters(seed_word)]]

\* the query behind a returned tuple r, and the index after it; nothing when
\* the search returned None
Searched(r) ==
    IF r = None
    THEN UNCHANGED <<last_query, mask_index>>
    ELSE /\ last_query' = QueryArgs(Join(UniqueLetters(r.candidate)), r.center_letter)
         /\ mask_index' = IndexAfterQuery(mask_index, Join(UniqueLetters(r.candidate)),
                                          r.center_letter)

\* lines 358-363: neither a candidates file nor a seed word
MainNoInput ==
    /\ pc = "main"
    /\ args.seed_word = None
    /\ args.candidates_json = None
    /\ pc' = "exit"
    /\ UNCHANGED <<searchVars, programVars, dedupVars, affixVars, toolVars>>

\* lines 374-400: the candidates and the dictionary are loaded, the index is
\* built
MainLoad ==
    /\ pc = "main"
    /\ ~(args.seed_word = None /\ args.candidates_json = None)
    /\ candidates' = IF args.candidates_json # None THEN args.candidates_json.items ELSE <<>>
    /\ mask_index' = [kind |-> "index",
                      buckets |-> build_mask_index(dictionary, MIN_WORD_LENGTH),
                      validates |-> engine_validates]
    /\ min_words_required' = args.min_words
    /\ pc' = "search"
    /\ UNCHANGED <<remaining, current, unique_letters, seed, centers_left, trials,
                   returns, result, returned_at, queries, steps, programVars, dedupVars,
                   affixVars, toolVars>>

\* lines 405-438 and 444-452: the seed-word mode; the assert fails, or
\* evaluate_candidate runs on the listed or the built candidate
MainSeedWord ==
    /\ pc = "search"
    /\ args.seed_word # None
    /\ LET cand == SeedWordCandidate(candidates, args.seed_word.text)
       IN IF cand = None
          THEN /\ pc' = "exit"
               /\ UNCHANGED <<result, returned_at>>
          ELSE \E r \in evaluate_candidate(cand, mask_index, min_words_required) :
                  /\ result' = r
                  /\ returned_at' = 432
                  /\ pc' = IF IsNone(r) THEN "exit" ELSE "assemble"
    /\ Searched(result')
    /\ UNCHANGED <<candidates, min_words_required, remaining, current,
                   unique_letters, seed, centers_left, trials, returns, queries, steps,
                   engine_validates, dictionary, dict_data, word_frequency, args, puzzle_data,
                   output_file, request, response, dedupVars, affixVars, toolVars>>

\* lines 439-452: the pool mode
MainPick ==
    /\ pc = "search"
    /\ args.seed_word = None
    /\ \E r \in pick_candidate_and_center(candidates, mask_index, min_words_required) :
          /\ result' = r
          /\ returned_at' = 442
          /\ pc' = IF IsNone(r) THEN "exit" ELSE "assemble"
    /\ Searched(result')
    /\ UNCHANGED <<candidates, min_words_required, remaining, current,
                   unique_letters, seed, centers_left, trials, returns, queries, steps,
                   engine_validates, dictionary, dict_data, word_frequency, args, puzzle_data,
                   output_file, request, response, dedupVars, affixVars, toolVars>>

\* lines 454-459: the result is unpacked and the puzzle assembled
MainAssemble ==
    /\ pc = "assemble"
    /\ result # None
    /\ puzzle_data' = generate_puzzle_json(result.candidate, result.center_letter,
                                           result.valid_words, word_frequency,
                                           dict_data)
    /\ pc' = "write"
    /\ UNCHANGED <<searchVars, engine_validates, dictionary, dict_data, word_frequency, args,
                   output_file, request, response, last_query, dedupVars, affixVars, toolVars>>

\* lines 461-481: the puzzle is written to the output file
MainWrite ==
    /\ pc = "write"
    /\ output_file' = puzzle_data
    /\ pc' = "done"
    /\ UNCHANGED <<searchVars, engine_validates, dictionary, dict_data, word_frequency, args,
                   puzzle_data, request, response, last_query, dedupVars, affixVars, toolVars>>

-----------------------------------------------------------------------------
(* server.py: initialize_dictionary and start_game *)

\* jsonify({"error": ...}), status
ErrorResponse(status, error) == [status |-> status, error |-> error]

\* lines 250-265: 1 point for a four-letter word, its length otherwise, 7
\* more for a pangram
RECURSIVE MaxScore(_)
MaxScore(words_with_data) ==
    IF words_with_data = <<>> THEN 0
    ELSE LET word_data == Head(words_with_data)
             points == IF Len(word_data.word) = 4 THEN 1 ELSE Len(word_data.word)
         IN points + (IF word_data.is_pangram THEN 7 ELSE 0)
                   + MaxScore(Tail(words_with_data))

\* mutant: the query is given the seed as it was sent
QuerySeed_AsSent(seed_l, letters) == seed_l

\* line 148, seed=letters: the query is given the letters kept, not the seed
QuerySeed(seed_l, letters) == letters

\* mutant: the mask of the seed as it was sent
GameMask_OfSeed(seed_l, letters) == word_to_mask(seed_l)

\* line 161: the mask of the letters being used
GameMask(seed_l, letters) == word_to_mask(letters)

\* a call of random.sample with its size, or no call
NoSample == [called |-> FALSE, size |-> 0]
SampleOf(k) == [called |-> TRUE, size |-> k]

\* what the handler hands back: the response, the arguments of the call of
\* all_words_for_seed when the handler reached it, the words the call gave
\* the words select_contextual_words gave and the call of random.sample
Refused(resp) ==
    [response |-> resp, query |-> None, valid_words |-> <<>>,
     contextual_words |-> <<>>, sample |-> NoSample]

Queried(resp, query_seed, center) ==
    [response |-> resp, query |-> QueryArgs(query_seed, center),
     valid_words |-> <<>>, contextual_words |-> <<>>, sample |-> NoSample]

\* line 165: dict_data.get(word, "No definition available")
DefinitionOf(word, dict) ==
    IF KeyPositions(dict, word) # {} THEN dict[First(KeyPositions(dict, word))].value
    ELSE NoDefinition

\* lines 163-172: the word data of a word
WordData(word, game_mask, table, dict) ==
    [word |-> word,
     frequency |-> table[word],
     definition |-> DefinitionOf(word, dict),
     is_pangram |-> word_to_mask(word) = game_mask,
     is_contextual |-> FALSE]

\* lines 175-177: the pangrams, in the order of valid_words
Pangrams(valid_words, game_mask) ==
    LET IsPangram(w) == word_to_mask(w) = game_mask
    IN SelectSeq(valid_words, IsPangram)

\* the literals of lines 199-237
WORD_LIMIT == 30
TOP_WORDS == 25
RANDOM_WORDS == 5
TARGET_CONTEXTUAL == 12
MIN_TOP_NON_CONTEXTUAL == 15

Min(a, b) == IF a < b THEN a ELSE b
Max(a, b) == IF a > b THEN a ELSE b

\* s[:n]
Take(s, n) == SubSeq(s, 1, Min(Len(s), Max(n, 0)))

\* s[n:]
Drop(s, n) == SubSeq(s, Min(Len(s), Max(n, 0)) + 1, Len(s))

\* random.sample(population, k): the k elements at positions chosen without
\* repeats.  The list is sorted again before it is returned, so the order
\* of the sample is left out.
Samples(population, k) ==
    {S \in SUBSET DOMAIN population : Cardinality(S) = k}

Sampled(population, S) == SelectSeq([i \in DOMAIN population |->
                                        IF i \in S THEN population[i]
                                        ELSE [word |-> ""]],
                                    LAMBDA w : w.word # "")

\* w['is_contextual'] = flag for each w
Marked(entries, flag) == [i \in DOMAIN entries |-> [entries[i] EXCEPT !.is_contextual = flag]]

\* lines 205-206: the first target_contextual entries whose word is in
\* contextual_set
ContextualSelected(words_with_data, contextual_words) ==
    Take(SelectSeq(words_with_data, LAMBDA w : w.word \in Range(contextual_words)),
         Min(TARGET_CONTEXTUAL, Len(contextual_words)))

\* line 213
NonContextual(words_with_data, contextual_words) ==
    SelectSeq(words_with_data, LAMBDA w : w.word \notin Range(contextual_words))

\* lines 214-217: top_non_contextual
TopNonContextual(non_contextual, remaining_count) ==
    Take(non_contextual, Max(MIN_TOP_NON_CONTEXTUAL, remaining_count - RANDOM_WORDS))

\* a sample of five or of what is left, whatever room the top words leave
ContextualSampleSize_WithoutRoom(non_contextual, top_non_contextual, remaining_count) ==
    IF Len(non_contextual) > Len(top_non_contextual)
    THEN SampleOf(Min(RANDOM_WORDS, Len(non_contextual) - Len(top_non_contextual)))
    ELSE NoSample

\* lines 218-221: the size handed to random.sample, when it is called
ContextualSampleSize(non_contextual, top_non_contextual, remaining_count) ==
    IF Len(non_contextual) > Len(top_non_contextual)
    THEN SampleOf(Min(RANDOM_WORDS, Min(remaining_count - Len(top_non_contextual),
                                        Len(non_contextual) - Len(top_non_contextual))))
    ELSE NoSample

\* lines 200-247 staged: the cut with contextual words, for each sample
\* random.sample can give; it raises ValueError on a negative size and on
\* one larger than the population.  A cut is [raised, sample, words].
ContextualCutOf(contextual_selected, non_contextual, top_non_contextual, sample) ==
    IF ~sample.called
    THEN {[raised |-> FALSE, sample |-> sample,
           words |-> SortedByFreq(Marked(contextual_selected, TRUE)
                                  \o Marked(top_non_contextual, FALSE))]}
    ELSE IF sample.size < 0
              \/ sample.size > Len(non_contextual) - Len(top_non_contextual)
    THEN {[raised |-> TRUE, sample |-> sample, words |-> <<>>]}
    ELSE {[raised |-> FALSE, sample |-> sample,
           words |-> SortedByFreq(
                        Marked(contextual_selected, TRUE)
                        \o Marked(top_non_contextual, FALSE)
                        \o Marked(Sampled(Drop(non_contextual, Len(top_non_contextual)), S),
                                  FALSE))] :
             S \in Samples(Drop(non_contextual, Len(top_non_contextual)), sample.size)}

ContextualCutFrom(contextual_selected, non_contextual) ==
    ContextualCutOf(
        contextual_selected, non_contextual,
        TopNonContextual(non_contextual, WORD_LIMIT - Len(contextual_selected)),
        ContextualSampleSize(
            non_contextual,
            TopNonContextual(non_contextual, WORD_LIMIT - Len(contextual_selected)),
            WORD_LIMIT - Len(contextual_selected)))

\* lines 233-241: the cut without contextual words
PlainCut(words_with_data) ==
    {[raised |-> FALSE,
      sample |-> SampleOf(Min(RANDOM_WORDS, Len(Drop(words_with_data, TOP_WORDS)))),
      words |-> SortedByFreq(Marked(Take(words_with_data, TOP_WORDS)
                                    \o Sampled(Drop(words_with_data, TOP_WORDS), S), FALSE))] :
        S \in Samples(Drop(words_with_data, TOP_WORDS),
                      Min(RANDOM_WORDS, Len(Drop(words_with_data, TOP_WORDS))))}

\* lines 198-247: the word data cut down to WORD_LIMIT words
LimitWords(words_with_data, contextual_words) ==
    IF Len(words_with_data) > WORD_LIMIT
    THEN IF contextual_words # <<>>
         THEN ContextualCutFrom(ContextualSelected(words_with_data, contextual_words),
                                NonContextual(words_with_data, contextual_words))
         ELSE PlainCut(words_with_data)
    ELSE {[raised |-> FALSE, sample |-> NoSample, words |-> Marked(words_with_data, FALSE)]}

\* lines 267-275: the response over the words kept
GameResponse(letters, center, words_with_data, pangrams, selected_day) ==
    [status |-> 200,
     letters |-> letters,
     center |-> center,
     valid_words |-> words_with_data,
     pangrams |-> pangrams,
     total_words |-> Len(words_with_data),
     max_score |-> MaxScore(words_with_data),
     selected_day |-> selected_day]

\* what the handler hands back when it got as far as the word data: the
\* response, the arguments of the query, the words the query gave and the
\* call of random.sample
Handled(resp, query_seed, center, valid_words, contextual_words, sample) ==
    [response |-> resp, query |-> QueryArgs(query_seed, center),
     valid_words |-> valid_words, contextual_words |-> contextual_words,
     sample |-> sample]

\* lines 184-196: the words select_contextual_words gives, which are words
\* of the word data; none without a day.  day is the 'day' of the body with
\* the positions of the words select_contextual_words names.
ContextualWords(words_with_data, day) ==
    IF day.selected_day = "" THEN <<>>
    ELSE LET named == SelectSeq(day.chosen, LAMBDA p : p <= Len(words_with_data))
         IN [i \in DOMAIN named |-> words_with_data[named[i]].word]

\* lines 198-275: the responses for the sorted word data, one for each cut
Responses200(letters, center, query_seed, valid_words, words_with_data, pangrams, day) ==
    {IF cut.raised
     THEN Handled(ErrorResponse(500, "random.sample raised"), query_seed, center,
                  valid_words, ContextualWords(words_with_data, day), cut.sample)
     ELSE Handled(GameResponse(letters, center, cut.words, pangrams, day.selected_day),
                  query_seed, center, valid_words, ContextualWords(words_with_data, day),
                  cut.sample) :
        cut \in LimitWords(words_with_data, ContextualWords(words_with_data, day))}

\* lines 153-275: the handler after the call of all_words_for_seed returned q
AfterQuery(letters, center, query_seed, q, game_mask, table, dict, day) ==
    IF q.raised
    THEN {Queried(ErrorResponse(500, "all_words_for_seed raised"), query_seed, center)}
    ELSE IF \E i \in DOMAIN q.words : table[q.words[i]] < 0
    THEN {Queried(ErrorResponse(500, "word_frequency raised"), query_seed, center)}
    ELSE Responses200(letters, center, query_seed, q.words,
                      SortedByFreq([i \in DOMAIN q.words |->
                                       WordData(q.words[i], game_mask, table, dict)]),
                      Pangrams(q.words, game_mask), day)

\* lines 140-161: the handler on the letters kept of the seed
WithLetters(seed_l, center, letters, index, table, dict, day) ==
    IF ~IsSubstring(center, letters)
    THEN {Refused(ErrorResponse(400, "Center letter must be one of the available letters"))}
    ELSE AfterQuery(letters, center, QuerySeed(seed_l, letters),
                    all_words_for_seed(QuerySeed(seed_l, letters), center, index,
                                       MIN_WORD_LENGTH),
                    GameMask(seed_l, letters), table, dict, day)

\* all_letters[:7]
FirstSeven(all_letters) ==
    SubSeq(all_letters, 1, IF Len(all_letters) < 7 THEN Len(all_letters) ELSE 7)

\* lines 129-140: the handler on the stripped, lower-cased seed and center
OnSeedAndCenter(seed_l, center, index, table, dict, day) ==
    IF seed_l = "" \/ center = ""
    THEN {Refused(ErrorResponse(400, "Seed and center letter are required"))}
    ELSE IF Len(center) # 1 \/ ~isalpha(center)
    THEN {Refused(ErrorResponse(400, "Center must be a single letter"))}
    ELSE WithLetters(seed_l, center,
                     FirstSeven(mask_to_letters(word_to_mask(seed_l))), index, table,
                     dict, day)

\* start_game on the JSON body data, lines 124-275: the responses it can
\* give, each with the arguments of the call of all_words_for_seed when the
\* handler reaches it.  chosen is the answer of select_contextual_words
\* when the summary of the day is there.
start_game(data, index, table, dict, chosen) ==
    OnSeedAndCenter(Lower(Strip(data.seed)), Lower(Strip(data.center)), index, table,
                    dict, [selected_day |-> data.day, chosen |-> chosen])

\* the definitions loaded with the dictionaries an index was built from
DefinitionsFor(index) ==
    {DefinitionsOf(d) :
        d \in {e \in ServerDictionaries :
                  build_mask_index(e, MIN_WORD_LENGTH) = index.buckets}}

\* the answers of select_contextual_words a body can meet: it is called
\* when the body has a day
SelectionsFor(data) == IF data.day = "" THEN {<<>>} ELSE Selections

\* start_game on the bodies, indexes, frequency tables and definitions of
\* the model, evaluated once
GameOutcomes ==
    [index \in BuiltIndexes |->
        [table \in FrequencyPool |->
            [dict \in DefinitionsFor(index) |->
                [data \in {r : r \in Requests} |->
                    [chosen \in SelectionsFor(data) |->
                        start_game(data, index, table, dict, chosen)]]]]]

\* the outcomes of start_game, from the table when it has them
StartGameOutcomes(data, index, table, dict, chosen) ==
    IF /\ index \in DOMAIN GameOutcomes
       /\ table \in DOMAIN GameOutcomes[index]
       /\ dict \in DOMAIN GameOutcomes[index][table]
    THEN GameOutcomes[index][table][dict][data][chosen]
    ELSE start_game(data, index, table, dict, chosen)

\* initialize_dictionary(), lines 39-50, called once before app.run
InitializeDictionary ==
    /\ pc = "boot"
    /\ mask_index' = [kind |-> "index",
                      buckets |-> build_mask_index(dictionary, MIN_WORD_LENGTH),
                      validates |-> engine_validates]
    /\ pc' = "serving"
    /\ UNCHANGED <<candidates, min_words_required, remaining, current,
                   unique_letters, seed, centers_left, trials, returns, result,
                   returned_at, queries, steps, programVars, dedupVars, affixVars, toolVars>>

\* POST /api/start-game with body data
StartGame ==
    /\ pc = "serving"
    /\ \E data \in Requests :
          \E chosen \in SelectionsFor(data) :
          \E handled \in StartGameOutcomes(data, mask_index, word_frequency, dict_data,
                                            chosen) :
             /\ request' = data
             /\ response' = handled.response
             /\ last_query' = handled.query
             /\ locals' = [valid_words |-> handled.valid_words,
                           contextual_words |-> handled.contextual_words,
                           sample |-> handled.sample]
             /\ mask_index' = IF handled.query = None THEN mask_index
                               ELSE IndexAfterQuery(mask_index, handled.query.seed,
                                                    handled.query.center_letter)
    /\ UNCHANGED <<pc, candidates, min_words_required, remaining, current,
                   unique_letters, seed, centers_left, trials, returns, result,
                   returned_at, queries, steps, engine_validates, dictionary, dict_data,
                   word_frequency, args, puzzle_data, output_file, dedupVars,
                   affixVars, call, returned>>

-----------------------------------------------------------------------------
(* Inputs of SpecMain, SpecServer and SpecAssemble *)

\* candidates handed to main: two well-formed ones, one of five letters, one
\* whose list has an element of two letters
MainCandidatePool ==
    {c \in CandidatePool : c.word \in {"searing", "bearing", "rings", "bearings"}}

MainCandidateLists == UNION {[1..n -> MainCandidatePool] : n \in 1..MaxCandidates}

SeedWordInputs == {"searing", "sea!riNg", "rings"}

MainArgs ==
    [candidates_json : {None} \cup {ListForm(l) : l \in MainCandidateLists},
     seed_word : {None} \cup {StrForm(w) : w \in SeedWordInputs},
     min_words : 1..MaxMainMinWords]

IdleSearchLocals ==
    /\ remaining = {}
    /\ current = 0
    /\ unique_letters = <<>>
    /\ seed = ""
    /\ centers_left = {}
    /\ trials = {}
    /\ returns = {}
    /\ returned_at = 0
    /\ queries = 0
    /\ steps = 0

InitMain ==
    /\ pc = "main"
    /\ IdleTools
    /\ args \in MainArgs
    /\ engine_validates \in BOOLEAN
    /\ dictionary \in DictionaryPool
    /\ dict_data = DefinitionsOf(dictionary)
    /\ word_frequency \in FrequencyPool
    /\ candidates = <<>>
    /\ min_words_required = 0
    /\ mask_index = None
    /\ result = None
    /\ puzzle_data = None
    /\ output_file = None
    /\ request = None
    /\ response = None
    /\ last_query = None
    /\ IdleSearchLocals
    /\ IdleDedup
    /\ IdleAffix

NextMain ==
    \/ MainNoInput
    \/ MainLoad
    \/ MainSeedWord
    \/ MainPick
    \/ MainAssemble
    \/ MainWrite

SpecMain == InitMain /\ [][NextMain]_vars

InitServer ==
    /\ pc = "boot"
    /\ IdleTools
    /\ engine_validates \in BOOLEAN
    /\ dictionary \in ServerDictionaries
    /\ dict_data = DefinitionsOf(dictionary)
    /\ word_frequency \in FrequencyPool
    /\ mask_index = None
    /\ request = None
    /\ response = None
    /\ last_query = None
    /\ args = None
    /\ candidates = <<>>
    /\ min_words_required = 0
    /\ result = None
    /\ puzzle_data = None
    /\ output_file = None
    /\ IdleSearchLocals
    /\ IdleDedup
    /\ IdleAffix

NextServer ==
    \/ InitializeDictionary
    \/ StartGame

SpecServer == InitServer /\ [][NextServer]_vars

\* valid_words handed to generate_puzzle_json directly: any list of these
\* words, repeats included
AssemblePool == {"ring", "rings", "sing", "rain", "searing"}

AssembleLists == UNION {[1..n -> AssemblePool] : n \in 0..MaxEntries}

InitAssemble ==
    /\ pc = "assemble"
    /\ IdleTools
    /\ result \in {ResultTuple(c, "g", valid_words) :
                      c \in {d \in CandidatePool : d.word \in {"searing", "bearing"}},
                      valid_words \in AssembleLists}
    /\ word_frequency \in FrequencyPool
    /\ engine_validates = FALSE
    /\ dictionary = <<>>
    /\ dict_data \in DictDataPool
    /\ args = None
    /\ candidates = <<>>
    /\ min_words_required = 0
    /\ mask_index = None
    /\ puzzle_data = None
    /\ output_file = None
    /\ request = None
    /\ response = None
    /\ last_query = None
    /\ IdleSearchLocals
    /\ IdleDedup
    /\ IdleAffix

NextAssemble == MainAssemble

SpecAssemble == InitAssemble /\ [][NextAssemble]_vars

\* both programs: a run of main or a run of the server
InitPrograms == InitMain \/ InitServer

NextPrograms == NextMain \/ NextServer

SpecPrograms == InitPrograms /\ [][NextPrograms]_vars

-----------------------------------------------------------------------------
(* filter_and_prune_words.py: process_batch and main.  Frequencies are     *)
(* the integers 0..MaxFreq, 0 standing for 0.0.                            *)

\* a dict as a function on its keys
EmptyDict == [k \in {} |-> ""]

\* d[k] = v
Put(d, k, v) == [x \in DOMAIN d \cup {k} |-> IF x = k THEN v ELSE d[x]]

\* if k not in d: d[k] = v
PutIfAbsent(d, k, v) == IF k \in DOMAIN d THEN d ELSE Put(d, k, v)

\* d.get(k), None and '' both being falsy
GetOrEmpty(d, k) == IF k \in DOMAIN d THEN d[k] ELSE ""

\* word_obj.get("frequency", 0.0)
FrequencyOf(word_obj) ==
    IF "frequency" \in DOMAIN word_obj THEN word_obj.frequency ELSE 0

\* [w.strip().lower() for w in raw if w and isinstance(w, str)], lines 169-170
NormalizedWords(raw) ==
    LET NonEmpty(w) == w # ""
        given == SelectSeq(raw, NonEmpty)
    IN [i \in DOMAIN given |-> Lower(Strip(given[i]))]

\* lines 187-202: the base form of a word ending in suffix, when the word is
\* longer than min_len, is mapped to the word unless the key is taken
AddBase(batch_word_map, normalized_word, suffix, min_len, word_obj) ==
    IF EndsWith(normalized_word, suffix) /\ Len(normalized_word) > min_len
    THEN PutIfAbsent(batch_word_map,
                     SubSeq(normalized_word, 1, Len(normalized_word) - Len(suffix)),
                     word_obj)
    ELSE batch_word_map

\* lines 176-202, one turn of the loop over the batch
MapWord(batch_word_map, normalized_word, word_obj) ==
    AddBase(AddBase(AddBase(AddBase(
        Put(PutIfAbsent(batch_word_map, normalized_word, word_obj),
            Lower(word_obj.word), word_obj),
        normalized_word, "ing", 0, word_obj),
        normalized_word, "ed", 0, word_obj),
        normalized_word, "er", 3, word_obj),
        normalized_word, "s", 2, word_obj)

\* lines 174-202: batch_word_map after the words from position i on
RECURSIVE BuildWordMap(_, _, _)
BuildWordMap(batch, i, batch_word_map) ==
    IF i > Len(batch) THEN batch_word_map
    ELSE BuildWordMap(batch, i + 1,
                      MapWord(batch_word_map, Strip(Lower(batch[i].word)), batch[i]))

\* batch_words_set
BatchWords(batch) == {batch[i].word : i \in DOMAIN batch}

\* lines 217-226 and 237-244: the loop over batch_words_set stops at a batch
\* word equal to the response when lower-cased; the order of the set
\* decides among several.  batch_word_map holds every lower-cased batch
\* word, so the direct match has taken these responses before.
SameLowered(batch, normalized_word) ==
    {b \in BatchWords(batch) : Lower(b) = normalized_word}

\* explanations.get(a) or explanations.get(b) or "No explanation provided"
ExplanationFor(explanations, a, b) ==
    IF GetOrEmpty(explanations, a) # "" THEN GetOrEmpty(explanations, a)
    ELSE IF GetOrEmpty(explanations, b) # "" THEN GetOrEmpty(explanations, b)
    ELSE "No explanation provided"

\* lines 210-228: the words of 'keep' matched back to batch words
RECURSIVE MatchKept(_, _, _, _, _)
MatchKept(kept_words_normalized, i, batch, batch_word_map, matched_kept_words) ==
    IF i > Len(kept_words_normalized) THEN matched_kept_words
    ELSE MatchKept(kept_words_normalized, i + 1, batch, batch_word_map,
            IF kept_words_normalized[i] \in DOMAIN batch_word_map
            THEN Append(matched_kept_words, batch_word_map[kept_words_normalized[i]].word)
            ELSE IF SameLowered(batch, kept_words_normalized[i]) # {}
            THEN Append(matched_kept_words,
                        CHOOSE b \in SameLowered(batch, kept_words_normalized[i]) : TRUE)
            ELSE matched_kept_words)

\* lines 230-250: the words of 'remove' matched back to batch words; a word
\* that matches nothing is recorded under its own normalized form
RECURSIVE MatchRemoved(_, _, _, _, _, _)
MatchRemoved(removed_words_normalized, i, batch, batch_word_map, explanations, matched_removed_words) ==
    IF i > Len(removed_words_normalized) THEN matched_removed_words
    ELSE MatchRemoved(removed_words_normalized, i + 1, batch, batch_word_map, explanations,
            IF removed_words_normalized[i] \in DOMAIN batch_word_map
            THEN Put(matched_removed_words,
                     batch_word_map[removed_words_normalized[i]].word,
                     ExplanationFor(explanations, removed_words_normalized[i],
                                    batch_word_map[removed_words_normalized[i]].word))
            ELSE IF SameLowered(batch, removed_words_normalized[i]) # {}
            THEN Put(matched_removed_words,
                     CHOOSE b \in SameLowered(batch, removed_words_normalized[i]) : TRUE,
                     ExplanationFor(explanations, removed_words_normalized[i],
                                    CHOOSE b \in SameLowered(batch, removed_words_normalized[i]) : TRUE))
            ELSE Put(matched_removed_words, removed_words_normalized[i],
                     ExplanationFor(explanations, removed_words_normalized[i], "")))

\* lines 164-250: what the parsed response names, before the check that
\* every batch word is accounted for
Matched(batch, llm, batch_word_map) ==
    [kept |-> MatchKept(NormalizedWords(llm.keep), 1, batch, batch_word_map, <<>>),
     removed |-> MatchRemoved(NormalizedWords(llm.remove), 1, batch, batch_word_map,
                              llm.explanations, EmptyDict)]

\* mutant: a word the response does not mention is not added
MissingFromResponse_None(batch, matched) == {}

\* lines 253-256: batch_words_set - accounted_for
MissingFromResponse(batch, matched) ==
    BatchWords(batch) \ ({matched.kept[i] : i \in DOMAIN matched.kept} \cup DOMAIN matched.removed)

\* the batch as it is kept whole, lines 152, 159 and 168
KeepAll(batch) == [kept |-> [i \in DOMAIN batch |-> batch[i].word], removed |-> EmptyDict]

\* lines 264-270: the missing words are kept, in the order the loop walks
\* the set
WithMissing(matched, missing_order) ==
    [kept |-> matched.kept \o missing_order, removed |-> matched.removed]

\* what the response names, for a response that was parsed
MatchedBatch(batch, llm) == Matched(batch, llm, BuildWordMap(batch, 1, EmptyDict))

\* the words the loop of line 267 walks
MissingWords(batch, llm) ==
    IF llm.kind # "parsed" THEN {} ELSE MissingFromResponse(batch, MatchedBatch(batch, llm))

\* process_batch(batch, ...), lines 107-284.  llm is what query_ollama and
\* the JSON parsing gave: [kind |-> "error"] (query_ollama raised),
\* [kind |-> "no_json"], [kind |-> "invalid_json"] or [kind |-> "parsed",
\* keep, remove, explanations].  missing_order is the order in which the
\* loop of line 267 walks the set missing_from_response.
process_batch(batch, llm, missing_order) ==
    IF llm.kind # "parsed" THEN KeepAll(batch)
    ELSE WithMissing(MatchedBatch(batch, llm), missing_order)

\* the orders in which a set can be walked
Orderings(S) ==
    {s \in [1..Cardinality(S) -> S] : \A x \in S : \E i \in DOMAIN s : s[i] = x}

\* mutant: only a frequency that is present and 0.0 counts as zero
IsZeroFrequency_Present(word_obj) ==
    "frequency" \in DOMAIN word_obj /\ word_obj.frequency = 0

\* lines 393-395: freq = word_obj.get("frequency", 0.0); freq == 0.0
IsZeroFrequency(word_obj) == FrequencyOf(word_obj) = 0

\* lines 388-398
WithFrequency(words_list) ==
    SelectSeq(words_list, LAMBDA word_obj : ~IsZeroFrequency(word_obj))

ZeroFrequencyWords(words_list) ==
    LET zero == SelectSeq(words_list, IsZeroFrequency)
    IN [i \in DOMAIN zero |-> zero[i].word]

\* lines 408-416: the words above the threshold are included without asking
AlwaysInclude(words_with_frequency, threshold) ==
    SelectSeq(words_with_frequency, LAMBDA word_obj : FrequencyOf(word_obj) > threshold)

ToBeProcessed(words_with_frequency, threshold) ==
    SelectSeq(words_with_frequency, LAMBDA word_obj : ~(FrequencyOf(word_obj) > threshold))

\* dict.update(other)
RECURSIVE UpdateDict(_, _)
UpdateDict(d, other) ==
    IF DOMAIN other = {} THEN d
    ELSE LET k == CHOOSE x \in DOMAIN other : TRUE
         IN UpdateDict(Put(d, k, other[k]), [x \in DOMAIN other \ {k} |-> other[x]])

\* lines 519-554: the output data, with the seed_word of the input puzzle
\* when it had one ("" stands for no such field)
OutputData(puzzle, l, kept_words_list) ==
    [seed_word |-> IF "seed_word" \in DOMAIN puzzle THEN puzzle.seed_word ELSE "",
     words |-> l.always_include \o kept_words_list,
     total_words |-> Len(l.always_include \o kept_words_list),
     original_word_count |-> Len(puzzle.words),
     filtering_stats |->
         [removed_zero_frequency |-> Len(l.zero_frequency_words),
          always_included |-> Len(l.always_include),
          processed_by_llm |-> Len(l.to_be_processed),
          kept_by_llm |-> Len(kept_words_list),
          removed_by_llm |-> Cardinality(DOMAIN l.all_removed)]]

\* --batch-size, at least 1
MaxBatchSize == 2

WordObj(word, frequency) ==
    [word |-> word, frequency |-> frequency, definition |-> "definition of " \o word]

\* the inputs: a puzzle with frequencies on both sides of the thresholds, a
\* zero and a missing frequency; a plain list with two words that differ in
\* case only; an input without words; an input of zero frequencies only
PuzzleInputs ==
    { [seed_word |-> "ringed",
       words |-> <<WordObj("ring", 2), WordObj("rings", 1), WordObj("ringed", 1),
                   WordObj("grin", 0), [word |-> "nger", definition |-> ""]>>],
      [words |-> <<WordObj("Rings", 1), WordObj("rings", 1), WordObj("fear", 1),
                   WordObj("Singer", 1)>>],
      [words |-> <<>>],
      [words |-> <<WordObj("grin", 0)>>] }

\* what query_ollama and the parsing of its answer can give for a batch
Responses ==
    {[kind |-> "error"], [kind |-> "no_json"], [kind |-> "invalid_json"]}
    \cup [kind : {"parsed"},
          keep : {<<>>, <<"Rings">>, <<" ring", "">>},
          remove : {<<>>, <<"ring">>, <<"RINGS", "junk">>, <<"sing", "rings">>},
          explanations : {EmptyDict, [ring |-> "too rare", junk |-> ""]}]

\* lines 385-386: sys.exit(1) on an input without words
FilterNoWords ==
    /\ pc = "filter"
    /\ Len(call.puzzle_data.words) = 0
    /\ pc' = "exit"
    /\ UNCHANGED <<toolVars, dedupVars, affixVars, searchVars, programVars>>

\* lines 388-421: the zero frequencies removed, the rest classified
FilterClassify ==
    /\ pc = "filter"
    /\ Len(call.puzzle_data.words) > 0
    /\ \E words_with_frequency \in {WithFrequency(call.puzzle_data.words)} :
          locals' = [zero_frequency_words |-> ZeroFrequencyWords(call.puzzle_data.words),
                     always_include |-> AlwaysInclude(words_with_frequency,
                                                      call.frequency_threshold),
                     to_be_processed |-> ToBeProcessed(words_with_frequency,
                                                       call.frequency_threshold),
                     i |-> 0,
                     all_kept_words |-> <<>>,
                     all_removed |-> EmptyDict,
                     last |-> <<>>]
    /\ pc' = "batches"
    /\ UNCHANGED <<call, returned, dedupVars, affixVars, searchVars, programVars>>

\* lines 456-469, one turn of the loop: last is the call of process_batch
\* of this turn with what it returned
FilterBatch ==
    /\ pc = "batches"
    /\ locals.i < Len(locals.to_be_processed)
    /\ \E batch \in {SubSeq(locals.to_be_processed, locals.i + 1,
                            IF locals.i + call.batch_size < Len(locals.to_be_processed)
                            THEN locals.i + call.batch_size
                            ELSE Len(locals.to_be_processed))} :
       \E llm \in Responses :
       \E missing_order \in Orderings(MissingWords(batch, llm)) :
       \E got \in {process_batch(batch, llm, missing_order)} :
          locals' = [locals EXCEPT
                        !.i = @ + call.batch_size,
                        !.all_kept_words = @ \o got.kept,
                        !.all_removed = UpdateDict(@, got.removed),
                        !.last = [batch |-> batch, llm |-> llm,
                                  kept |-> got.kept, removed |-> got.removed]]
    /\ UNCHANGED <<pc, call, returned, dedupVars, affixVars, searchVars, programVars>>

\* lines 449-452 and 479-554: the kept words matched back to their objects,
\* the output written
FilterWrite ==
    /\ pc = "batches"
    /\ locals.i >= Len(locals.to_be_processed)
    /\ returned' = OutputData(call.puzzle_data, locals,
                      IF locals.to_be_processed = <<>> THEN <<>>
                      ELSE SelectSeq(locals.to_be_processed,
                                     LAMBDA w : \E j \in DOMAIN locals.all_kept_words :
                                                   locals.all_kept_words[j] = w.word))
    /\ pc' = "written"
    /\ UNCHANGED <<call, locals, dedupVars, affixVars, searchVars, programVars>>

NextFilter == FilterNoWords \/ FilterClassify \/ FilterBatch \/ FilterWrite

InitFilter ==
    /\ pc = "filter"
    /\ call \in [puzzle_data : PuzzleInputs,
                 frequency_threshold : 0..MaxFreq,
                 batch_size : 1..MaxBatchSize]
    /\ locals = <<>>
    /\ returned = <<>>
    /\ IdleDedup
    /\ IdleAffix
    /\ IdleSearch
    /\ IdleProgram

SpecFilter == InitFilter /\ [][NextFilter]_vars

-----------------------------------------------------------------------------
(* finalize_words_and_clues.py.  A JSON score is a number, NaN (which     *)
(* json.load accepts), a string or null; a float is [nan, value].          *)

Num(n) == [kind |-> "num", value |-> n]
NaN == [kind |-> "nan"]
Str(text) == [kind |-> "str", text |-> text]

\* the strings float() converts, with their values; on any other string
\* float() raises ValueError
FloatLiterals == [text \in {"3", "5"} |-> IF text = "3" THEN 3 ELSE 5]

\* float(score), lines 44-46: the float, or raised for a TypeError or
\* ValueError
ToFloat(score) ==
    IF score.kind = "num" THEN [raised |-> FALSE, nan |-> FALSE, value |-> score.value]
    ELSE IF score.kind = "nan" THEN [raised |-> FALSE, nan |-> TRUE, value |-> 0]
    ELSE IF score.kind = "str" /\ score.text \in DOMAIN FloatLiterals
    THEN [raised |-> FALSE, nan |-> FALSE, value |-> FloatLiterals[score.text]]
    ELSE [raised |-> TRUE, nan |-> FALSE, value |-> 0]

\* a < b on floats: False when either is NaN
FloatLess(a, b) == ~a.nan /\ ~b.nan /\ a.value < b.value

\* str(entry.get(field, "")).strip()
StrippedField(entry, field) ==
    IF field \in DOMAIN entry THEN Strip(entry[field]) ELSE ""

\* deduplicate_clues, lines 22-34: the first entry of each word, compared
\* stripped and lower-cased; entries without a word are dropped
RECURSIVE DedupFrom(_, _, _, _)
DedupFrom(clues, i, seen, unique) ==
    IF i > Len(clues) THEN unique
    ELSE IF StrippedField(clues[i], "word") = ""
              \/ Lower(StrippedField(clues[i], "word")) \in seen
    THEN DedupFrom(clues, i + 1, seen, unique)
    ELSE DedupFrom(clues, i + 1, seen \cup {Lower(StrippedField(clues[i], "word"))},
                   Append(unique, clues[i]))

deduplicate_clues(clues) == DedupFrom(clues, 1, {}, <<>>)

\* entry.get("score", 0)
ScoreOf(entry) == IF "score" \in DOMAIN entry THEN entry.score ELSE Num(0)

\* lines 40-52: whether build_contextual_map takes the entry
TakesClue(entry, score_threshold) ==
    /\ StrippedField(entry, "word") # ""
    /\ ~ToFloat(ScoreOf(entry)).raised
    /\ ~FloatLess(ToFloat(ScoreOf(entry)), score_threshold)
    /\ StrippedField(entry, "clue") # ""

\* build_contextual_map, lines 37-57
RECURSIVE ContextualMapFrom(_, _, _, _)
ContextualMapFrom(clues, i, score_threshold, ctx_map) ==
    IF i > Len(clues) THEN ctx_map
    ELSE ContextualMapFrom(clues, i + 1, score_threshold,
            IF TakesClue(clues[i], score_threshold)
            THEN Put(ctx_map, Lower(StrippedField(clues[i], "word")),
                     [contextual_clue |-> StrippedField(clues[i], "clue"),
                      score |-> ToFloat(ScoreOf(clues[i]))])
            ELSE ctx_map)

build_contextual_map(clues, score_threshold) ==
    ContextualMapFrom(clues, 1, score_threshold, EmptyDict)

\* deduplicate_generic_clues, lines 60-72
RECURSIVE DedupGenericFrom(_, _, _, _)
DedupGenericFrom(generic_clues, i, seen, unique) ==
    IF i > Len(generic_clues) THEN unique
    ELSE IF StrippedField(generic_clues[i], "word") = ""
              \/ StrippedField(generic_clues[i], "clue") = ""
              \/ Lower(StrippedField(generic_clues[i], "word")) \in seen
    THEN DedupGenericFrom(generic_clues, i + 1, seen, unique)
    ELSE DedupGenericFrom(generic_clues, i + 1,
                          seen \cup {Lower(StrippedField(generic_clues[i], "word"))},
                          Append(unique, [word |-> StrippedField(generic_clues[i], "word"),
                                          clue |-> StrippedField(generic_clues[i], "clue")]))

\* build_generic_map, lines 75-80
RECURSIVE GenericMapFrom(_, _, _)
GenericMapFrom(generic_clues, i, g_map) ==
    IF i > Len(generic_clues) THEN g_map
    ELSE GenericMapFrom(generic_clues, i + 1,
                        Put(g_map, Lower(generic_clues[i].word), generic_clues[i].clue))

build_generic_map(generic_clues) == GenericMapFrom(generic_clues, 1, EmptyDict)

\* lines 93-110: the merged entry of a word
MergedEntry(word_info, word, ctx_map, generic_map) ==
    [word |-> word,
     contextual_clue |-> IF Lower(word) \in DOMAIN ctx_map
                         THEN ctx_map[Lower(word)].contextual_clue ELSE "N/A",
     generic_clue |-> IF Lower(word) \in DOMAIN generic_map
                      THEN generic_map[Lower(word)] ELSE "N/A",
     frequency |-> FrequencyOf(word_info),
     score |-> IF Lower(word) \in DOMAIN ctx_map
               THEN ctx_map[Lower(word)].score
               ELSE [raised |-> FALSE, nan |-> FALSE, value |-> 0]]

\* merge_words_with_clues, lines 84-112
merge_words_with_clues(words, ctx_map, generic_map) ==
    LET named == SelectSeq(words, LAMBDA word_info : StrippedField(word_info, "word") # "")
    IN [i \in DOMAIN named |->
           MergedEntry(named[i], StrippedField(named[i], "word"), ctx_map, generic_map)]

\* main, lines 159-172, on the three loaded lists
finalize(words, validated_data, generic_data, score_threshold) ==
    LET merged_entries ==
            merge_words_with_clues(
                words,
                build_contextual_map(deduplicate_clues(validated_data), score_threshold),
                build_generic_map(DedupGenericFrom(generic_data, 1, {}, <<>>)))
    IN [total_words |-> Len(merged_entries), words |-> merged_entries]

\* the longest list of validated clues
MaxClues == 3

\* validated clues: two spellings of a word with scores on both sides of
\* the threshold, a blank clue, scores given as strings, NaN, no score, no
\* word
ClueEntries ==
    { [word |-> "Ring ", clue |-> "band", score |-> Num(5)],
      [word |-> "ring", clue |-> "circle", score |-> Num(3)],
      [word |-> "ring", clue |-> " ", score |-> Num(5)],
      [word |-> "sing", clue |-> "voice", score |-> Str("5")],
      [word |-> "sing", clue |-> "loud", score |-> Str("high")],
      [word |-> "rain", clue |-> "wet", score |-> NaN],
      [word |-> "sing", clue |-> "tune"],
      [word |-> " ", clue |-> "nothing", score |-> Num(5)] }

ClueLists == UNION {[1..n -> ClueEntries] : n \in 0..MaxClues}

\* the pruned words
FinalizeWords ==
    <<WordObj("ring", 2), WordObj("Sing", 1), [word |-> "rain"], [word |-> " "]>>

GenericClues ==
    <<[word |-> "ring", clue |-> "a circle"], [word |-> "Ring", clue |-> "later"],
      [word |-> "rain", clue |-> ""]>>

\* --score-threshold
ScoreThresholds == {[raised |-> FALSE, nan |-> FALSE, value |-> v] : v \in 3..5}

InitFinalize ==
    /\ pc = "finalize"
    /\ call \in [words : {FinalizeWords}, validated_data : ClueLists,
                 generic_data : {GenericClues}, score_threshold : ScoreThresholds]
    /\ locals = <<>>
    /\ returned = <<>>
    /\ IdleDedup
    /\ IdleAffix
    /\ IdleSearch
    /\ IdleProgram

\* main of finalize_words_and_clues.py
Finalize ==
    /\ pc = "finalize"
    /\ returned' = finalize(call.words, call.validated_data, call.generic_data,
                            call.score_threshold)
    /\ pc' = "finalized"
    /\ UNCHANGED <<call, locals, dedupVars, affixVars, searchVars, programVars>>

NextFinalize == Finalize

SpecFinalize == InitFinalize /\ [][NextFinalize]_vars

-----------------------------------------------------------------------------
(* create_contextual_seed_word.py: validate_candidate, and the letter      *)
(* count check of evaluate_candidate on the same candidate                 *)

\* errors.append(...) when the condition holds
ErrorIf(condition, error) == IF condition THEN <<error>> ELSE <<>>

\* lines 114-118: distinct_letters as the validator reads a list or a str;
\* the quotes stripped from a letter of the str form leave it as it is
ValidatorLetters(distinct_letters_raw) ==
    IF distinct_letters_raw.kind = "list"
    THEN [i \in DOMAIN distinct_letters_raw.items |->
             Strip(Lower(distinct_letters_raw.items[i]))]
    ELSE LET found == FindAllLetters(distinct_letters_raw.text)
         IN [i \in DOMAIN found |-> Strip(Lower(found[i]))]

\* lines 124-153: the checks on the letters and the clue
LetterErrors(word, word_letters, distinct_letters, clue) ==
    ErrorIf(Len(distinct_letters) # 7, "expected 7 distinct letters")
    \o ErrorIf(Cardinality(Range(distinct_letters)) # Len(distinct_letters),
               "duplicate letters")
    \o ErrorIf(Range(distinct_letters) \ word_letters # {}, "letters not in the word")
    \o ErrorIf(Cardinality(word_letters) # 7, "word has not 7 distinct letters")
    \o (IF word_letters # Range(distinct_letters)
        THEN ErrorIf(word_letters \ Range(distinct_letters) # {}, "extra letters in word")
             \o ErrorIf(Range(distinct_letters) \ word_letters # {},
                        "letters not in the word")
        ELSE <<>>)
    \o ErrorIf(Strip(clue) = "", "clue is empty")

\* lines 103-153: the checks once the three fields are there
FieldErrors(word, distinct_letters_raw, clue) ==
    ErrorIf(word = "", "word is empty")
    \o ErrorIf(Len(word) < 7, "word is too short")
    \o (IF distinct_letters_raw.kind \notin {"list", "str"}
        THEN <<"distinct_letters must be a list or string">>
        ELSE LetterErrors(word, LettersOf(word),
                          ValidatorLetters(distinct_letters_raw), clue))

\* validate_candidate(candidate, index, narrative), lines 86-155: the list
\* of errors
validate_candidate(cand) ==
    IF "word" \notin DOMAIN cand THEN <<"missing word">>
    ELSE IF "distinct_letters" \notin DOMAIN cand THEN <<"missing distinct_letters">>
    ELSE IF "clue" \notin DOMAIN cand THEN <<"missing clue">>
    ELSE FieldErrors(Lower(Strip(cand.word)), cand.distinct_letters, cand.clue)

\* generate_spelling_bee_puzzle.py lines 90-97: evaluate_candidate reads
\* candidate.get('distinct_letters', []) and goes on only with 7 letters
PassesLetterCount(cand) ==
    Len(UniqueLetters([distinct_letters |->
                          IF "distinct_letters" \in DOMAIN cand
                          THEN cand.distinct_letters ELSE ListForm(<<>>)]))
        = RequiredLetters

\* candidates as the model answers: words of 5 to 8 letters with a list or
\* a string of letters, padded, capitalised, punctuated, repeated, blank;
\* blank clues; missing fields
SeedWords == {"searing", " Searing", "bearing", "rings", "bearings", "retains"}

LetterForms ==
    { ListForm(<<"s", "e", "a", " R", "i", "N", "g">>),
      ListForm(<<"s", "e", "a", "r", "i", "n", "g", "s">>),
      ListForm(<<"s", "e", "a", "r", "i", "n", " ">>),
      ListForm(<<"b", "e", "a", "r", "i", "n", "gs">>),
      StrForm("S!e!a!r!i!n!G"),
      StrForm("bea!riNgn"),
      StrForm("searing1"),
      StrForm("rings"),
      [kind |-> "other"] }

SeedCandidates ==
    [word : SeedWords, distinct_letters : LetterForms, clue : {"a clue", " "}]
    \cup { [distinct_letters |-> StrForm("searing"), clue |-> "a clue"],
           [word |-> "searing", clue |-> "a clue"],
           [word |-> "searing", distinct_letters |-> StrForm("searing")] }

InitValidate ==
    /\ pc = "validate"
    /\ call \in [candidate : SeedCandidates]
    /\ locals = <<>>
    /\ returned = <<>>
    /\ IdleDedup
    /\ IdleAffix
    /\ IdleSearch
    /\ IdleProgram

\* upstream: validate_candidate on the candidate
ValidateCandidate ==
    /\ pc = "validate"
    /\ locals' = [errors |-> validate_candidate(call.candidate)]
    /\ pc' = "validated"
    /\ UNCHANGED <<call, returned, dedupVars, affixVars, searchVars, programVars>>

\* downstream: the letter count check of evaluate_candidate on it
CheckLetterCount ==
    /\ pc = "validated"
    /\ returned' = [passes |-> PassesLetterCount(call.candidate)]
    /\ pc' = "counted"
    /\ UNCHANGED <<call, locals, dedupVars, affixVars, searchVars, programVars>>

NextValidate == ValidateCandidate \/ CheckLetterCount

SpecValidate == InitValidate /\ [][NextValidate]_vars

-----------------------------------------------------------------------------
(* server.py: generate_single_hint, generate_contextual_hint,              *)
(* validate_hint and generate_fallback_hint                                *)

\* sep.join(word): the characters of word with sep between them
RECURSIVE Spelled(_, _)
Spelled(word, sep) ==
    IF Len(word) <= 1 THEN word
    ELSE CharAt(word, 1) \o sep \o Spelled(SubSeq(word, 2, Len(word)), sep)

\* ''.join(c for c in s if c.isalpha())
RECURSIVE LettersOnly(_)
LettersOnly(s) ==
    IF s = "" THEN ""
    ELSE (IF CharAt(s, 1) \in AsciiLetters THEN CharAt(s, 1) ELSE "")
         \o LettersOnly(SubSeq(s, 2, Len(s)))

\* lines 696-723 on the lower-cased hint and word
HintHides(hint_lower, word_lower) ==
    /\ ~IsSubstring(word_lower, hint_lower)
    /\ ~IsSubstring(Spelled(word_lower, " "), hint_lower)
    /\ ~IsSubstring(Spelled(word_lower, "."), hint_lower)
    /\ ~IsSubstring(Spelled(word_lower, "-"), hint_lower)
    /\ ~IsSubstring(word_lower, LettersOnly(hint_lower))

\* validate_hint(hint, word), lines 694-723: True when the hint does not
\* reveal the word
validate_hint(hint, word) == HintHides(Lower(hint), Lower(word))

\* str(n)
RECURSIVE ToStr(_)
ToStr(n) ==
    IF n < 10 THEN CharAt("0123456789", n + 1)
    ELSE ToStr(n \div 10) \o CharAt("0123456789", (n % 10) + 1)

\* lines 728-734: the five fallback hints; * stands for an emoji, which is
\* not a letter
fallback_hints(word) ==
    <<ToStr(Len(word)) \o "-letter word that might surprise you *",
      "Think carefully about this one *",
      "A common " \o ToStr(Len(word)) \o "-letter word you know",
      "You'll kick yourself when you get this one!",
      "This one requires some creative thinking *">>

\* hint.replace('"', '')
RECURSIVE WithoutQuotes(_)
WithoutQuotes(s) ==
    IF s = "" THEN ""
    ELSE (IF CharAt(s, 1) = "\"" THEN "" ELSE CharAt(s, 1))
         \o WithoutQuotes(SubSeq(s, 2, Len(s)))

\* '\n'.join(lines) with each '\n' replaced by ' '
RECURSIVE OnOneLine(_)
OnOneLine(lines) ==
    IF lines = <<>> THEN ""
    ELSE IF Len(lines) = 1 THEN lines[1]
    ELSE lines[1] \o " " \o OnOneLine(Tail(lines))

\* lines 675-678: the hint of generate_single_hint from the lines of the
\* response
GenericHint(lines) == Strip(WithoutQuotes(Strip(OnOneLine(lines))))

\* lines 812-824: the hint of generate_contextual_hint from the lines of
\* the response, without a first line that names the clue type
ContextualHint(lines) ==
    IF Len(lines) >= 2 /\ Upper(Strip(lines[1])) \in {"CONTEXTUAL", "GENERIC"}
    THEN Strip(WithoutQuotes(Strip(OnOneLine(Tail(lines)))))
    ELSE Strip(WithoutQuotes(Strip(OnOneLine(lines))))

\* the most attempts of generate_single_hint
max_attempts == 2

\* the words asked for and what the request to the LLM can give: an
\* exception, a status other than 200, or the lines of a response
HintWords == {"ring", "word", "This", "searing"}

Replies ==
    {[kind |-> "raised"], [kind |-> "status"]}
    \cup [kind : {"ok"},
          lines : { <<"A band of gold">>, <<"R I N G: a band">>, <<"r.i.n.g">>,
                    <<"Wear the \"Ring\"">>, <<"generic ", "What you did with your voice">>,
                    <<"CONTEXTUAL", "se-a-ring pain">>, <<"Another word for term">>,
                    <<>> }]

InitHint ==
    /\ pc \in {"single_hint", "contextual_hint"}
    /\ call \in [word : HintWords, is_pangram : BOOLEAN]
    /\ locals = [attempt |-> 0, requests |-> 0]
    /\ returned = <<>>
    /\ IdleDedup
    /\ IdleAffix
    /\ IdleSearch
    /\ IdleProgram

\* return generate_fallback_hint(word): random.choice of the five
ReturnFallback ==
    \E choice \in 1..5 : returned' = fallback_hints(call.word)[choice]

\* generate_single_hint, lines 617-686: one attempt
SingleHintAttempt ==
    /\ pc = "single_hint"
    /\ locals.attempt < max_attempts
    /\ \E reply \in Replies :
          IF reply.kind # "ok"
          THEN /\ ReturnFallback
               /\ pc' = "hinted"
               /\ locals' = [locals EXCEPT !.requests = @ + 1]
          ELSE IF validate_hint(GenericHint(reply.lines), call.word)
          THEN /\ returned' = GenericHint(reply.lines)
               /\ pc' = "hinted"
               /\ locals' = [locals EXCEPT !.requests = @ + 1]
          ELSE /\ locals' = [attempt |-> locals.attempt + 1,
                             requests |-> locals.requests + 1]
               /\ UNCHANGED <<pc, returned>>
    /\ UNCHANGED <<call, dedupVars, affixVars, searchVars, programVars>>

\* generate_single_hint, lines 688-691: every attempt revealed the word
SingleHintGiveUp ==
    /\ pc = "single_hint"
    /\ locals.attempt >= max_attempts
    /\ ReturnFallback
    /\ pc' = "hinted"
    /\ UNCHANGED <<call, locals, dedupVars, affixVars, searchVars, programVars>>

\* generate_contextual_hint, lines 741-840, the prompt file being there
ContextualHintRequest ==
    /\ pc = "contextual_hint"
    /\ \E reply \in Replies :
          IF reply.kind = "ok" /\ validate_hint(ContextualHint(reply.lines), call.word)
          THEN returned' = ContextualHint(reply.lines)
          ELSE ReturnFallback
    /\ locals' = [locals EXCEPT !.requests = @ + 1]
    /\ pc' = "hinted"
    /\ UNCHANGED <<call, dedupVars, affixVars, searchVars, programVars>>

\* generate_contextual_hint, lines 745-747: open() raises when the prompt
\* file is missing, and nothing is returned
ContextualHintNoPrompt ==
    /\ pc = "contextual_hint"
    /\ pc' = "exit"
    /\ UNCHANGED <<toolVars, dedupVars, affixVars, searchVars, programVars>>

NextHint ==
    \/ SingleHintAttempt
    \/ SingleHintGiveUp
    \/ ContextualHintRequest
    \/ ContextualHintNoPrompt

SpecHint == InitHint /\ [][NextHint]_vars

-----------------------------------------------------------------------------
(* Properties of drop_superset_words (SpecDedup) *)

WordsOf(s) == {s[i].word : i \in DOMAIN s}

ProperSubstring(k, w) == k # w /\ IsSubstring(k, w)

DistinctWords(s) == \A i, j \in DOMAIN s : s[i].word = s[j].word => i = j

\* C1: the output holds no word W together with another output word K of
\* frequency >= freq_threshold that is a proper substring of W and of which
\* W is a simple affix variant.
C1_NoAffixVariantKept ==
    pc # "start" =>
        \A i, j \in DOMAIN filtered :
            ~ /\ filtered[j].frequency >= freq_threshold
              /\ ProperSubstring(filtered[j].word, filtered[i].word)
              /\ is_simple_affix_variant(filtered[j].word, filtered[i].word)

C3_DroppedOnlyWithKeptBase ==
    pc # "start" =>
        \A i \in DOMAIN word_entries :
            word_entries[i].word \notin WordsOf(filtered) =>
                \E j \in DOMAIN filtered :
                    /\ filtered[j].frequency >= freq_threshold
                    /\ ProperSubstring(filtered[j].word, word_entries[i].word)

\* a word was dropped, and a word rarer than the threshold was kept
C3_Witness ==
    /\ pc = "filtered"
    /\ \E i \in DOMAIN word_entries : word_entries[i].word \notin WordsOf(filtered)
    /\ \E i \in DOMAIN filtered : filtered[i].frequency < freq_threshold

\* C4: for an input with distinct words, filtering the filter's own output
\* with the same threshold returns that output unchanged.
C4_Idempotent ==
    (pc = "refiltered" /\ DistinctWords(word_entries)) => refiltered = filtered

\* the first pass dropped something and kept something, then the second pass ran
C4_Witness ==
    /\ pc = "refiltered"
    /\ DistinctWords(word_entries)
    /\ Len(filtered) < Len(word_entries)
    /\ Len(filtered) >= 2

-----------------------------------------------------------------------------
(* Properties of is_simple_affix_variant (SpecAffix) *)

\* the enumerated shapes, as plain string equations
EnumeratedShape(b, c) ==
    \/ c = "re" \o b
    \/ \E s \in {"ing", "er", "ness", "s"} : c = b \o s
    \/ /\ b # ""
       /\ \E s \in {"ing", "er"} : c = b \o CharAt(b, Len(b)) \o s

\* C6 as stated: true exactly for the enumerated shapes of the two strings
\* as given, false for every other pair.
C6_ExactlyEnumeratedShapes ==
    pc = "tested" => (is_variant <=> EnumeratedShape(base, candidate))

\* C6 amended: true exactly when base is non-empty and the lower-cased
\* candidate has one of the enumerated shapes over the lower-cased base.
C6_ShapesOfLowercasedNonEmpty ==
    pc = "tested" =>
        (is_variant <=> (base # "" /\ EnumeratedShape(Lower(base), Lower(candidate))))

\* a doubled-final-letter form was accepted
C6_Witness ==
    /\ pc = "tested"
    /\ is_variant
    /\ base # ""
    /\ \E s \in {"ing", "er"} :
          Lower(candidate) = Lower(base) \o CharAt(Lower(base), Len(base)) \o s

-----------------------------------------------------------------------------
(* Properties of the candidate and center search (SpecSearch) *)

\* the query for this seed and center returns a list that meets the threshold
Reaches(seed_arg, center_letter) ==
    LET q == all_words_for_seed(seed_arg, center_letter, mask_index, MIN_WORD_LENGTH)
    IN ~q.raised /\ Len(q.words) >= min_words_required

\* C7: evaluate_candidate returns the first tried center that reaches
\* min_words_required with exactly that center's word list; every center
\* tried before it raised or yielded fewer words; no center is tried after
\* it; None is returned from the loop only after all 7 centers were tried.
C7_FirstReachingCenterWins ==
    /\ \A r \in returns :
          /\ r.line = 120 =>
                /\ r.value.candidate = candidates[r.candidate]
                /\ r.value.center_letter \in r.tried
                /\ r.value.center_letter \in Range(r.unique_letters)
                /\ Reaches(r.seed, r.value.center_letter)
                /\ r.value.valid_words =
                       all_words_for_seed(r.seed, r.value.center_letter,
                                          mask_index, MIN_WORD_LENGTH).words
                /\ \A t \in r.tried \ {r.value.center_letter} : ~Reaches(r.seed, t)
          /\ r.line = 125 =>
                /\ r.tried = Range(r.unique_letters)
                /\ Cardinality(r.tried) = RequiredLetters
                /\ \A t \in r.tried : ~Reaches(r.seed, t)
    /\ returned_at = 145 =>
          \E r \in returns : r.line = 120 /\ r.candidate = current /\ r.tried = trials

\* a center was accepted after a raising one and a too-small one
C7_Witness ==
    \E r \in returns :
        /\ r.line = 120
        /\ \E t \in r.tried :
              all_words_for_seed(r.seed, t, mask_index, MIN_WORD_LENGTH).raised
        /\ \E t \in r.tried \ {r.value.center_letter} :
              ~all_words_for_seed(r.seed, t, mask_index, MIN_WORD_LENGTH).raised

\* what evaluate_candidate derives from each candidate of the pool
ParsedPool ==
    [c \in CandidatePool |-> [unique_letters |-> UniqueLetters(c), seed |-> Seed(c)]]

\* the candidate has 7 unique elements and one of them reaches the threshold
CanQualify(cand) ==
    LET u == ParsedPool[cand].unique_letters
    IN /\ Len(u) = RequiredLetters
       /\ \E k \in 1..RequiredLetters : Reaches(ParsedPool[cand].seed, u[k])

\* C8: pick_candidate_and_center returns None if and only if no candidate of
\* the pool has a center reaching min_words_required, whatever the shuffle
\* orders; before None is returned every candidate was evaluated.
C8_FailsIffNoCandidateQualifies ==
    pc = "done" =>
        /\ (result = None) <=> (\A i \in DOMAIN candidates : ~CanQualify(candidates[i]))
        /\ result = None =>
              \A i \in DOMAIN candidates : \E r \in returns : r.candidate = i

\* the search succeeded after another candidate failed with a raising query
C8_Witness ==
    /\ pc = "done"
    /\ result # None
    /\ \E r \in returns :
          /\ r.line = 125
          /\ \E t \in r.tried :
                all_words_for_seed(r.seed, t, mask_index, MIN_WORD_LENGTH).raised

\* unique_letters is 7 single alphabetic letters
SevenAlphabeticLetters(u) ==
    /\ Len(u) = RequiredLetters
    /\ \A k \in DOMAIN u : u[k] \in AsciiLetters

\* C9: a candidate whose distinct_letters does not reduce to exactly 7
\* distinct alphabetic letters is rejected without any center being tried.
C9_MalformedRejectedUntried ==
    (current # 0 /\ ~SevenAlphabeticLetters(unique_letters)) =>
        (pc # "centers" /\ trials = {})

\* C10: the value returned for a wrong letter count differs from the value
\* returned when no center reaches the threshold, and both differ from the
\* pool-exhausted value of pick_candidate_and_center.
C10_FailuresDistinguishable ==
    /\ \A a, b \in returns : (a.line = 97 /\ b.line = 125) => a.value # b.value
    /\ returned_at = 147 =>
          \A a \in returns : a.line \in {97, 125} => a.value # result

-----------------------------------------------------------------------------
(* Properties of the subset query and of the programs' use of it           *)
(* (SpecPrograms, SpecServer, SpecMain)                                    *)

\* the characters of each word of the dictionaries
WordLetters == [w \in DictionaryWords |-> LettersOf(w)]

\* the dictionary words a query for alphabet and center letter must return
ExpectedWords(words, alphabet, center_letter, min_len) ==
    LET allowed == LettersOf(alphabet)
    IN  {w \in Range(words) :
            /\ Len(w) >= min_len
            /\ WordLetters[w] \subseteq allowed
            /\ center_letter \in WordLetters[w]}

\* list holds each element of S once and nothing else
ExactlyOnce(list, S) == Range(list) = S /\ Len(list) = Cardinality(S)

SearchSucceeded == pc \in {"assemble", "write", "done"} /\ result # None

GameStarted == pc = "serving" /\ response # None /\ response.status = 200

\* C11: the query for an alphabet and a center letter returns exactly the
\* dictionary words of at least MIN_WORD_LENGTH letters whose letters all
\* belong to the alphabet and which hold the center letter, each once: the
\* word list a successful search returns and the word list the query gives
\* a started game are that set.
C11_QueryReturnsExactlyTheSubsetWords ==
    /\ SearchSucceeded =>
          /\ last_query # None
          /\ last_query.center_letter = result.center_letter
          /\ ExactlyOnce(result.valid_words,
                         ExpectedWords(dictionary, last_query.seed, last_query.center_letter,
                                       MIN_WORD_LENGTH))
    /\ GameStarted =>
          ExactlyOnce(locals.valid_words,
                      ExpectedWords(dictionary, response.letters, response.center,
                                    MIN_WORD_LENGTH))

\* a game started with two words of one bucket, while the dictionary holds a
\* word outside the alphabet and a word too short
C11_Witness ==
    /\ GameStarted
    /\ \E i, j \in DOMAIN response.valid_words :
          /\ i # j
          /\ LettersOf(response.valid_words[i].word) = LettersOf(response.valid_words[j].word)
    /\ \E w \in Range(dictionary) : ~(LettersOf(w) \subseteq LettersOf(response.letters))
    /\ \E w \in Range(dictionary) :
          Len(w) < MIN_WORD_LENGTH /\ LettersOf(w) \subseteq LettersOf(response.letters)

\* seven distinct lower-case letters
SevenDistinctLetters(s) ==
    /\ Len(s) = RequiredLetters
    /\ LettersOf(s) \subseteq Letters26
    /\ Cardinality(LettersOf(s)) = RequiredLetters

\* C12: every call of all_words_for_seed, by the search or by start_game, is
\* given a seed of exactly seven distinct letters.
C12_EveryQueryHasSevenLetters ==
    last_query # None => SevenDistinctLetters(last_query.seed)

\* the letters of the alphabet a puzzle or a game names
AlphabetOf(distinct_letters) == UNION {LettersOf(distinct_letters[i]) : i \in DOMAIN distinct_letters}

ValidFor(word, alphabet, center_letter) ==
    /\ LettersOf(word) \subseteq alphabet
    /\ IsSubstring(center_letter, word)
    /\ Len(word) >= MIN_WORD_LENGTH

\* C13: every word of an assembled puzzle and of a started game uses only
\* letters of its alphabet, holds the center letter and has at least
\* MIN_WORD_LENGTH letters, and the center letter belongs to the alphabet.
C13_WordsFitAlphabetAndCenter ==
    /\ puzzle_data # None =>
          /\ \A i \in DOMAIN puzzle_data.words :
                ValidFor(puzzle_data.words[i].word,
                         AlphabetOf(puzzle_data.distinct_letters),
                         puzzle_data.center_letter)
          /\ puzzle_data.center_letter \in Range(puzzle_data.distinct_letters)
    /\ GameStarted =>
          /\ \A i \in DOMAIN response.valid_words :
                ValidFor(response.valid_words[i].word, LettersOf(response.letters),
                         response.center)
          /\ response.center \in LettersOf(response.letters)

\* a puzzle was assembled with several words while the dictionary holds a
\* word of the alphabet without the center letter
C13_Witness ==
    /\ pc = "write"
    /\ Len(puzzle_data.words) >= 2
    /\ \E w \in Range(dictionary) :
          /\ Len(w) >= MIN_WORD_LENGTH
          /\ LettersOf(w) \subseteq AlphabetOf(puzzle_data.distinct_letters)
          /\ puzzle_data.center_letter \notin LettersOf(w)

\* the buckets build_mask_index makes of each dictionary of the pool
BuiltBuckets == [d \in ServerDictionaries |-> build_mask_index(d, MIN_WORD_LENGTH)]

\* C20: once build_mask_index has returned, no step of the search, of the
\* assembly or of a request handler changes the index: before the load
\* there is no index, and at every later moment the index is the one
\* build_mask_index makes of the loaded dictionary, bucket for bucket.
C20_IndexWrittenOnlyWhenBuilt ==
    IF mask_index = None
    THEN \/ pc \in {"main", "boot"}
         \/ pc = "exit" /\ returned_at = 0
    ELSE /\ pc \notin {"main", "boot"}
         /\ mask_index.buckets = BuiltBuckets[dictionary]

\* an index with a bucket of two words has served a search or a request
C20_Witness ==
    /\ mask_index # None
    /\ \E m \in DOMAIN mask_index.buckets : Len(mask_index.buckets[m]) >= 2
    /\ last_query # None

-----------------------------------------------------------------------------
(* Properties of generate_puzzle_json (SpecAssemble) and of main (SpecMain) *)

Assembled == pc = "write" /\ puzzle_data # None

\* number of positions of list holding the word w
Occurrences(list, w) == Cardinality({i \in DOMAIN list : list[i] = w})

PuzzleWords == [i \in DOMAIN puzzle_data.words |-> puzzle_data.words[i].word]

\* C14: the words of an assembled puzzle, the dedup filter applied, are in
\* order of falling frequency, and of rising word among equal frequencies.
C14_WordsByFrequencyThenWord ==
    Assembled =>
        \A i, j \in DOMAIN puzzle_data.words :
            i < j =>
                \/ puzzle_data.words[i].frequency > puzzle_data.words[j].frequency
                \/ /\ puzzle_data.words[i].frequency = puzzle_data.words[j].frequency
                   /\ ~StrLess(puzzle_data.words[j].word, puzzle_data.words[i].word)

\* a puzzle of words of two frequencies, from a list the filter shortened
C14_Witness ==
    /\ Assembled
    /\ Len(puzzle_data.words) < Len(result.valid_words)
    /\ \E i, j \in DOMAIN puzzle_data.words :
          puzzle_data.words[i].frequency > puzzle_data.words[j].frequency

\* C18: the distinct_letters of the assembled puzzle are the candidate's
\* seven distinct letters in rising order, without repeats.
C18_DistinctLettersSortedSeven ==
    Assembled =>
        /\ puzzle_data.distinct_letters = UniqueLetters(result.candidate)
        /\ Len(puzzle_data.distinct_letters) = RequiredLetters

\* C19: every word of the assembled puzzle is one of the valid_words handed
\* to generate_puzzle_json and occurs in the puzzle no more often than there.
C19_AssemblerIntroducesNoWord ==
    Assembled =>
        \A w \in Range(PuzzleWords) :
            /\ w \in Range(result.valid_words)
            /\ Occurrences(PuzzleWords, w) <= Occurrences(result.valid_words, w)

\* a word handed in twice is in the puzzle, and another word was dropped
C19_Witness ==
    /\ Assembled
    /\ \E w \in Range(PuzzleWords) : Occurrences(result.valid_words, w) = 2
    /\ \E w \in Range(result.valid_words) : w \notin Range(PuzzleWords)

\* what main has produced: an assembled puzzle or a written file
Produced == pc \in {"assemble", "write", "done"} \/ puzzle_data # None \/ output_file # None

\* C15: main assembles and writes a puzzle only after the search returned a
\* result, and a run whose search failed ends in an error exit with no
\* puzzle assembled and no file written.
C15_NoPuzzleWithoutSearchResult ==
    /\ Produced => result # None /\ returned_at \in {432, 442}
    /\ pc = "exit" => puzzle_data = None /\ output_file = None
    /\ pc = "done" => output_file = puzzle_data /\ puzzle_data # None

\* a file was written after a search over a candidates file
C15_Witness ==
    /\ pc = "done"
    /\ output_file # None
    /\ returned_at = 442

-----------------------------------------------------------------------------
(* Further properties of the search (SpecSearch) *)

\* C16: every tuple evaluate_candidate or pick_candidate_and_center returns
\* holds at least min_words_required words, and the threshold in force at
\* every return of evaluate_candidate, with or without a tuple, is the one
\* the search holds now: it is the same in every trial and never lowered.
C16_ResultMeetsCallersThreshold ==
    /\ \A r \in returns :
          /\ r.min_words = min_words_required
          /\ r.value # None => Len(r.value.valid_words) >= r.min_words
    /\ (pc = "done" /\ result # None) =>
          Len(result.valid_words) >= min_words_required

\* a tuple was returned with exactly the number of words required, after a
\* center with fewer words had been tried
C16_Witness ==
    /\ pc = "done"
    /\ result # None
    /\ Len(result.valid_words) = min_words_required
    /\ min_words_required >= 2
    /\ \E r \in returns : r.value = result /\ Cardinality(r.tried) >= 2

\* what is left of the search: an upper bound of the steps still to come
Measure ==
    CASE pc = "pick" -> (RequiredLetters + 2) * Len(candidates) + 2
      [] pc = "loop" -> (RequiredLetters + 2) * Cardinality(remaining) + 1
      [] pc = "centers" ->
            (RequiredLetters + 2) * Cardinality(remaining) + 2 + Cardinality(centers_left)
      [] OTHER -> 0

\* C17: pick_candidate_and_center terminates after at most 7 * |candidates|
\* calls of all_words_for_seed: the steps taken and the steps still to come
\* never add up to more than 9 * |candidates| + 2, so no run of the search
\* is infinite; no candidate is evaluated twice and no center is tried twice.
C17_TerminatesWithinSevenQueriesEach ==
    /\ queries <= RequiredLetters * Len(candidates)
    /\ Measure \in Nat
    /\ steps + Measure <= (RequiredLetters + 2) * Len(candidates) + 2
    /\ \A r1, r2 \in returns : r1.candidate = r2.candidate => r1 = r2
    /\ \A r \in returns : r.candidate \notin remaining
    /\ trials \cap centers_left = {}

\* every candidate of a pool of two was evaluated on all its seven centers
\* and the search returned
C17_Witness ==
    /\ pc = "done"
    /\ Len(candidates) >= 2
    /\ queries = RequiredLetters * Len(candidates)

-----------------------------------------------------------------------------
(* Properties of the definition lookup (SpecAssemble) *)

\* C21: every entry of an assembled puzzle has a definition: the value of
\* the key that is the word in lower case when there is one, else the value
\* of a key that equals it when lower-cased, else the sentinel.
C21_DefinitionFoundOrSentinel ==
    Assembled =>
        \A i \in DOMAIN puzzle_data.words :
            LET e == puzzle_data.words[i]
                exact == KeyPositions(dict_data, Lower(e.word))
                folded == FoldedPositions(dict_data, Lower(e.word))
            IN /\ "definition" \in DOMAIN e
               /\ exact # {} => \A k \in exact : e.definition = dict_data[k].value
               /\ (exact = {} /\ folded # {}) =>
                     \E k \in folded : e.definition = dict_data[k].value
               /\ folded = {} => e.definition = NoDefinition

\* a puzzle with a word whose exact key comes after a key in capitals, a
\* word found through a key in capitals only, and a word without a key
C21_Witness ==
    /\ Assembled
    /\ \E i, j, k \in DOMAIN puzzle_data.words :
          /\ KeyPositions(dict_data, puzzle_data.words[i].word) # {}
          /\ First(FoldedPositions(dict_data, puzzle_data.words[i].word))
                \notin KeyPositions(dict_data, puzzle_data.words[i].word)
          /\ KeyPositions(dict_data, puzzle_data.words[j].word) = {}
          /\ puzzle_data.words[j].definition = "d3"
          /\ puzzle_data.words[k].definition = NoDefinition

-----------------------------------------------------------------------------
(* Properties of the pangram flags (SpecPrograms) *)

\* C22: a word of a start_game response is flagged is_pangram if and only
\* if its letters are exactly the letters the game is played with, the
\* letters field of the response, whatever further letters the seed had.
C22_PangramIffAllGameLetters ==
    GameStarted =>
        \A i \in DOMAIN response.valid_words :
            response.valid_words[i].is_pangram
                <=> LettersOf(response.valid_words[i].word) = LettersOf(response.letters)

\* a game on the first seven letters of an eight-letter seed, with a word
\* flagged as pangram and a word that is not
C22_Witness ==
    /\ GameStarted
    /\ LettersOf(Lower(Strip(request.seed))) # LettersOf(response.letters)
    /\ \E i, j \in DOMAIN response.valid_words :
          /\ response.valid_words[i].is_pangram
          /\ ~response.valid_words[j].is_pangram

-----------------------------------------------------------------------------
(* Properties of filter_and_prune_words (SpecFilter) *)

\* the forms under which process_batch knows a batch word: the word
\* lower-cased, also stripped, and its base forms without -ing, -ed, -er, -s
FormsOf(word) ==
    {Lower(word), Strip(Lower(word))}
    \cup {SubSeq(Strip(Lower(word)), 1, Len(Strip(Lower(word))) - Len(suffix)) :
            suffix \in {x \in {"ing", "ed", "er", "s"} : EndsWith(Strip(Lower(word)), x)}}

BatchCalled == pc \in {"batches", "written"} /\ locals.i > 0

\* the batch words the last call of process_batch left out of its kept list
LeftOut == BatchWords(locals.last.batch) \ Range(locals.last.kept)

\* the batch words the 'keep' list of the last response was matched to
NamedKept ==
    Range(MatchKept(NormalizedWords(locals.last.llm.keep), 1, locals.last.batch,
                    BuildWordMap(locals.last.batch, 1, EmptyDict), <<>>))

C24_NoZeroFrequencyWritten ==
    pc = "written" =>
        /\ \A i \in DOMAIN returned.words :
              /\ "frequency" \in DOMAIN returned.words[i]
              /\ returned.words[i].frequency # 0
        /\ returned.total_words = Len(returned.words)

\* an output written after a batch in which the response tried to keep all,
\* from an input holding a zero and a missing frequency
C24_Witness ==
    /\ pc = "written"
    /\ Len(returned.words) > 0
    /\ locals.i > 0
    /\ Len(locals.zero_frequency_words) > 1

-----------------------------------------------------------------------------
(* Properties of finalize_words_and_clues (SpecFinalize) *)

\* the positions of the validated clues given for a word
CluesFor(word) ==
    {j \in DOMAIN call.validated_data :
        /\ StrippedField(call.validated_data[j], "word") # ""
        /\ Lower(StrippedField(call.validated_data[j], "word")) = Lower(word)}

\* the score of the entry is a number and at least the threshold
ScoreAtLeast(entry, score_threshold) ==
    /\ ~ToFloat(ScoreOf(entry)).raised
    /\ ~ToFloat(ScoreOf(entry)).nan
    /\ ToFloat(ScoreOf(entry)).value >= score_threshold.value

\* the first validated clue of the word has a clue and a score that reaches
\* the threshold
FirstClueQualifies(word) ==
    /\ CluesFor(word) # {}
    /\ StrippedField(call.validated_data[First(CluesFor(word))], "clue") # ""
    /\ ScoreAtLeast(call.validated_data[First(CluesFor(word))], call.score_threshold)

\* C25: a finalized word carries the clue and score of the first validated
\* entry for it when that entry has a clue and a score >= the threshold, and
\* 'N/A' with score 0 otherwise, whatever later entries for the word say.
C25_FirstEntryDecidesContextualClue ==
    pc = "finalized" =>
        \A i \in DOMAIN returned.words :
            IF FirstClueQualifies(returned.words[i].word)
            THEN /\ returned.words[i].contextual_clue =
                       StrippedField(call.validated_data[
                           First(CluesFor(returned.words[i].word))], "clue")
                 /\ returned.words[i].score =
                       ToFloat(ScoreOf(call.validated_data[
                           First(CluesFor(returned.words[i].word))]))
            ELSE /\ returned.words[i].contextual_clue = "N/A"
                 /\ returned.words[i].score.value = 0
                 /\ ~returned.words[i].score.nan

-----------------------------------------------------------------------------
(* Upstream validation and downstream acceptance (SpecValidate) *)

\* C26: a candidate on which validate_candidate reports no error passes the
\* letter count check of evaluate_candidate, in the list form and in the
\* string form of distinct_letters.
C26_ValidatedPassesLetterCount ==
    (pc = "counted" /\ locals.errors = <<>>) => returned.passes

\* a validated candidate whose letters come as a punctuated, capitalised
\* string, counted
C26_Witness ==
    /\ pc = "counted"
    /\ locals.errors = <<>>
    /\ call.candidate.distinct_letters.kind = "str"
    /\ returned.passes

-----------------------------------------------------------------------------
(* Properties of the hints (SpecHint) *)

\* C28: a hint returned by generate_single_hint or generate_contextual_hint,
\* the fallback hints included, satisfies validate_hint for its word, and
\* generate_single_hint has made at most 2 requests when it returns.
C28_HintNeverRevealsWord ==
    pc = "hinted" =>
        /\ validate_hint(returned, call.word)
        /\ locals.requests <= 2

-----------------------------------------------------------------------------
(* The size of the puzzle written (SpecMain) *)

\* C29: the puzzle generate_puzzle_json produces, counted after the dedup
\* filter, has at least the min_words_required words that the accepted
\* candidate and center were searched with.
C29_PuzzleMeetsMinimumSize ==
    (pc \in {"write", "done"} /\ puzzle_data # None) =>
        puzzle_data.total_words >= min_words_required


-----------------------------------------------------------------------------
(* Properties of the word list of a start_game response (SpecServer) *)

\* the words of the valid_words field of the response
ResponseWords == [i \in DOMAIN response.valid_words |-> response.valid_words[i].word]

Handled200 == pc = "serving" /\ response # None

\* C27: start_game returns at most WORD_LIMIT words.  When the query gave
\* more, the valid_words of the response are at most WORD_LIMIT, exactly
\* WORD_LIMIT when select_contextual_words gave no word, no word twice and
\* each a word the query gave; random.sample is never called with a
\* negative size; total_words is the length of valid_words.
C27_AtMostThirtyWords ==
    /\ Handled200 => (locals.sample.called => locals.sample.size >= 0)
    /\ GameStarted =>
          /\ Len(response.valid_words) <= WORD_LIMIT
          /\ response.total_words = Len(response.valid_words)
          /\ Len(locals.valid_words) > WORD_LIMIT =>
                /\ locals.contextual_words = <<>> => Len(response.valid_words) = WORD_LIMIT
                /\ \A i, j \in DOMAIN ResponseWords :
                      i # j => ResponseWords[i] # ResponseWords[j]
                /\ Range(ResponseWords) \subseteq Range(locals.valid_words)

\* a game on a query that gave more than WORD_LIMIT words, twelve of them
\* contextual, where the top words left room for a sample of three only
C27_Witness ==
    /\ GameStarted
    /\ Len(locals.valid_words) > WORD_LIMIT
    /\ Len(locals.contextual_words) > TARGET_CONTEXTUAL
    /\ locals.sample.called
    /\ locals.sample.size > 0
    /\ locals.sample.size < RANDOM_WORDS
    /\ Len(response.valid_words) = WORD_LIMIT

\* C30: every word of the pangrams field of a start_game response is a
\* word of its valid_words field, also when the word list was cut down.
C30_PangramsAreValidWords ==
    GameStarted => Range(response.pangrams) \subseteq Range(ResponseWords)

=============================================================================
